---- MODULE Spec2Model ----
(***************************************************************************)
(* A model of the Parsl workflow status reporter: wstat.py (version 1) and *)
(* wstat2.py (version 2).  Both define a class pmon that reads a           *)
(* monitoring database and prints reports.  The model covers               *)
(*   - the status matrix tally (printStatusMatrix / taskStatusMatrix),     *)
(*   - the run index (readWorkflowTable / loadWorkflowTable, selectRunID)  *)
(*     and the main program's control flow,                                *)
(*   - the Summary-mode task query of getTaskData.                         *)
(* Python's None is the empty tuple None; a present value v is <<v>>.      *)
(***************************************************************************)
EXTENDS Integers, Sequences, FiniteSets, TLC

VARIABLES
    prog,        \* which program runs: "wstat" (wstat.py) or "wstat2" (wstat2.py)
    pc,          \* position of the running program
    pTasks,      \* self.pTasks (wstat.py) / self.trows (wstat2.py): the task rows
    taskStats,   \* taskStats: {task name: {state: count, 'TOTAL': count}}
    statTotals,  \* statTotals: {state: count, 'TOTAL': count}
    nTasks,      \* nTasks, rows visited by the tally loop
    nTaskTypes,  \* nTaskTypes, rows allocated in taskStats
    tIdx,        \* index in pTasks of the row the tally loop visits next
    workflow,    \* the monitoring database's workflow table (a set of rows)
    views,       \* the names of the views the monitoring database holds
    args,        \* the parsed command line
    wrows,       \* self.wrows, the run rows in ascending time_began order
    runid2num,   \* self.runid2num
    runnum2id,   \* self.runnum2id
    numRuns,     \* self.numRuns
    runmin,      \* self.runmin
    runmax,      \* self.runmax
    viewsUpdated, \* self.viewsUpdated (wstat2.py)
    pTasksFilled, \* self.pTasksFilled (wstat.py) / self.sumFlag (wstat2.py)
    todo,        \* the calls the running report has still to make, in order
    queries,     \* the SQL statements executed so far: what each reads or changes
    out,         \* what has been printed so far
    checked,     \* the main program's run number check has been passed
    selected,    \* the workflow row the last run lookup returned, or None
    task,        \* the monitoring database's task table
    try,         \* the monitoring database's try table
    status,      \* the monitoring database's status table
    call,        \* the arguments of the getTaskData call, or None
    tRowz,       \* tRowz, the rows the task query returned
    nodeUsage,   \* self.nodeUsage: host -> number of running tasks
    nRunning,    \* nRunning of the last getTaskData call
    taskLimit,   \* self.taskLimit
    usageOut,    \* the node usage summary the last call printed, or None
    nCalls,      \* the number of getTaskData calls made on the instance
    plotTally,   \* the locals of plotStats while it runs, or None
    listed,      \* the rows of the task table the report printed, or None
    answers,     \* the rows the database has returned, by task query
    earlier      \* what an earlier invocation on this database printed, or None

matrixVars == <<pTasks, taskStats, statTotals, nTasks, nTaskTypes, tIdx>>
dbVars == <<workflow, views>>
indexVars == <<wrows, runid2num, runnum2id, numRuns, runmin, runmax>>
mainVars == <<args, viewsUpdated, pTasksFilled, todo, queries, out, checked, selected>>
queryVars == <<task, try, status, call, tRowz>>
fillVars == <<nodeUsage, nRunning, taskLimit, usageOut, nCalls, plotTally>>
sessionVars == <<listed, answers, earlier>>
vars == <<prog, pc, matrixVars, dbVars, indexVars, mainVars, queryVars, fillVars,
          sessionVars>>

(***************************************************************************)
(* Bounds of the model.                                                    *)
(***************************************************************************)
MaxRows == 3
MaxRuns == 3
MaxRunDir == 3
MaxRunArg == 4
MaxTasks == 2
MaxTries == 2
MaxEvents == 2
MaxTime == 2
MaxHistTries == 1
MaxFetched == 2
MaxCalls == 2
MaxMixed == 2
MaxLost == 11

Programs == {"wstat", "wstat2"}

None == << >>
Some(v) == <<v>>

Range(s) == {s[i] : i \in DOMAIN s}

RECURSIVE SumOver(_, _)
SumOver(f, S) ==
    IF S = {} THEN 0
    ELSE LET x == CHOOSE y \in S : TRUE IN f[x] + SumOver(f, S \ {x})

(***************************************************************************)
(* Python dictionaries: functions whose domain is the set of keys.         *)
(***************************************************************************)
EmptyDict == [k \in {} |-> 0]

DictSet(d, k, v) == [x \in (DOMAIN d) \cup {k} |-> IF x = k THEN v ELSE d[x]]

(***************************************************************************)
(* The status vocabulary of each program and the tally template.           *)
(***************************************************************************)
statList(p) ==
    IF p = "wstat"
    THEN <<"pending", "launched", "joining", "running", "unsched", "unknown",
           "exec_done", "memo_done", "failed", "dep_fail", "fail_retryable">>
    ELSE <<"pending", "launched", "running", "joining", "running_ended",
           "unsched", "unknown", "exec_done", "memo_done", "failed",
           "dep_fail", "fail_retryable">>

statTemplate(p) == [s \in Range(statList(p)) |-> 0]

\* dict(self.statTemplate) followed by ['TOTAL'] = 0
NewTally(p) == DictSet(statTemplate(p), "TOTAL", 0)

(***************************************************************************)
(* The body of the tally loop.  AllocRow is the "if tName not in           *)
(* taskStats" block; TallyTask the two increments of the task's row;       *)
(* TallyTotals the two increments of statTotals.  A status that is not a   *)
(* key of the row makes "taskStats[tName][tStat] += 1" raise KeyError      *)
(* before anything is incremented.                                         *)
(***************************************************************************)
AllocRow(stats, p, tName) ==
    IF tName \in DOMAIN stats THEN stats ELSE DictSet(stats, tName, NewTally(p))

RaisesKeyError(row, tStat) == tStat \notin DOMAIN row

\* a faulty tally, for comparison: the row's TOTAL cell is not incremented
TallyTask_NoRowTotal(stats, tName, tStat) ==
    [stats EXCEPT ![tName] = [@ EXCEPT ![tStat] = @ + 1]]

TallyTask(stats, tName, tStat) ==
    [stats EXCEPT ![tName] = [[@ EXCEPT ![tStat] = @ + 1] EXCEPT !["TOTAL"] = @ + 1]]

TallyTotals(totals, tStat) ==
    [[totals EXCEPT ![tStat] = @ + 1] EXCEPT !["TOTAL"] = @ + 1]

\* taskStats['TOTAL'] = dict(statTotals)
StoreTotalRow(stats, totals) == DictSet(stats, "TOTAL", totals)

(***************************************************************************)
(* printStatusMatrix (wstat.py) / taskStatusMatrix (wstat2.py), entered    *)
(* with the task rows loaded.                                              *)
(***************************************************************************)
MatrixBegin ==
    /\ pc = "matrix"
    /\ IF Len(pTasks) < 1
       THEN /\ pc' = "nothing"
            /\ out' = out \o <<"Nothing to do">>
            /\ UNCHANGED <<taskStats, statTotals, nTasks, nTaskTypes, tIdx>>
       ELSE /\ pc' = "tally"
            /\ taskStats' = EmptyDict
            /\ statTotals' = NewTally(prog)
            /\ nTasks' = 0
            /\ nTaskTypes' = 0
            /\ tIdx' = 1
            /\ UNCHANGED out
    /\ UNCHANGED <<queryVars, fillVars, sessionVars>>
    /\ UNCHANGED <<prog, pTasks, dbVars, indexVars, args, viewsUpdated,
                   pTasksFilled, todo, queries, checked, selected>>

TallyRow ==
    /\ pc = "tally"
    /\ tIdx <= Len(pTasks)
    /\ LET tName == pTasks[tIdx].task_name
           tStat == pTasks[tIdx].status
           alloc == AllocRow(taskStats, prog, tName)
       IN  /\ nTasks' = nTasks + 1
           /\ nTaskTypes' = IF tName \in DOMAIN taskStats
                            THEN nTaskTypes ELSE nTaskTypes + 1
           /\ IF RaisesKeyError(alloc[tName], tStat)
              THEN /\ taskStats' = alloc
                   /\ pc' = "KeyError"
                   /\ UNCHANGED <<statTotals, tIdx>>
              ELSE /\ taskStats' = TallyTask(alloc, tName, tStat)
                   /\ statTotals' = TallyTotals(statTotals, tStat)
                   /\ tIdx' = tIdx + 1
                   /\ pc' = pc
    /\ UNCHANGED <<queryVars, fillVars, sessionVars>>
    /\ UNCHANGED <<prog, pTasks, dbVars, indexVars, mainVars>>

MatrixRender ==
    /\ pc = "tally"
    /\ tIdx > Len(pTasks)
    /\ taskStats' = StoreTotalRow(taskStats, statTotals)
    /\ out' = out \o <<"Task status matrix">>
    /\ pc' = "rendered"
    /\ UNCHANGED <<queryVars, fillVars, sessionVars>>
    /\ UNCHANGED <<prog, pTasks, statTotals, nTasks, nTaskTypes, tIdx>>
    /\ UNCHANGED <<dbVars, indexVars, args, viewsUpdated, pTasksFilled, todo,
                   queries, checked, selected>>

(***************************************************************************)
(* The monitoring database's workflow table.  A row holds the run's opaque *)
(* run_id, its time_began and the basename of its rundir (runinfo/NNN), a  *)
(* string of decimal digits modelled as the tuple of its digits.           *)
(***************************************************************************)
RECURSIVE IntOfDigits(_)
\* int(runNum) of a decimal string
IntOfDigits(ds) ==
    IF Len(ds) = 0 THEN 0
    ELSE 10 * IntOfDigits(SubSeq(ds, 1, Len(ds) - 1)) + ds[Len(ds)]

RECURSIVE OrderByTimeBegan(_)
\* "order by time_began asc"
OrderByTimeBegan(rows) ==
    IF rows = {} THEN << >>
    ELSE LET first == CHOOSE r \in rows :
                          \A q \in rows : r.time_began <= q.time_began
         IN  <<first>> \o OrderByTimeBegan(rows \ {first})

\* The view runview: run_id with runnum, the 1-based position of the run in
\* ascending time_began order.
RunView(table) ==
    {[run_id |-> r.run_id,
      runnum |-> 1 + Cardinality({q \in table : q.time_began < r.time_began})]
        : r \in table}

\* "from workflow w join runview rv on (w.run_id=rv.run_id) order by w.time_began asc"
WorkflowJoinRunView(table) ==
    OrderByTimeBegan(
        {[run_id |-> w.run_id, time_began |-> w.time_began, rundir |-> w.rundir,
          runnum |-> rv.runnum]
            : <<w, rv>> \in {x \in table \X RunView(table) : x[1].run_id = x[2].run_id}})

RunMinInit == 999999999
RunMaxInit == -1

\* The run number of a row as the program reads it: version 1 takes the
\* basename of rundir, version 2 the runnum column of runview.
RowRunNum(p, row) == IF p = "wstat" THEN row.rundir ELSE row.runnum

\* int(...) of that run number
PyInt(p, v) == IF p = "wstat" THEN IntOfDigits(v) ELSE v

\* a faulty maximum, for comparison: runmax is never raised
NewMax_Never(cur, n) == cur

NewMax(cur, n) == IF n > cur THEN n ELSE cur

NewMin(cur, n) == IF n < cur THEN n ELSE cur

EmptyIndex ==
    [runid2num |-> EmptyDict, runnum2id |-> EmptyDict,
     runmin |-> RunMinInit, runmax |-> RunMaxInit]

\* one pass of the loop over self.wrows
IndexRow(p, idx, row) ==
    LET runNum == RowRunNum(p, row)
    IN  [runid2num |-> DictSet(idx.runid2num, row.run_id, runNum),
         runnum2id |-> DictSet(idx.runnum2id, PyInt(p, runNum), row.run_id),
         runmax    |-> NewMax(idx.runmax, PyInt(p, runNum)),
         runmin    |-> NewMin(idx.runmin, PyInt(p, runNum))]

RECURSIVE IndexRows(_, _, _, _)
IndexRows(p, rows, i, idx) ==
    IF i > Len(rows) THEN idx
    ELSE IndexRows(p, rows, i + 1, IndexRow(p, idx, rows[i]))

(***************************************************************************)
(* selectRunID and the indexing of self.wrows by its result.  The result   *)
(* of a Python call is [err, val]: err is "" or the exception raised.      *)
(***************************************************************************)
Ok(v) == [err |-> "", val |-> v]
Raise(e) == [err |-> e, val |-> None]

\* the first index (0-based) of rows, from position i on, whose run_id is id
RECURSIVE FirstWithRunId(_, _, _)
FirstWithRunId(rows, id, i) ==
    IF i > Len(rows) THEN -1
    ELSE IF rows[i].run_id = id THEN i - 1
    ELSE FirstWithRunId(rows, id, i + 1)

selectRunID(rows, n2id, runnum) ==
    IF runnum = None THEN Ok(-1)
    ELSE IF Len(rows) = 0 THEN Raise("AssertionError")
    ELSE IF runnum[1] \notin DOMAIN n2id THEN Raise("KeyError")
    ELSE LET rdx == FirstWithRunId(rows, n2id[runnum[1]], 1)
         IN  IF rdx < 0 THEN Raise("AssertionError") ELSE Ok(rdx)

\* rows[rdx] in Python: a negative index counts from the end
PyIndex(rows, rdx) ==
    IF 0 <= rdx /\ rdx < Len(rows) THEN Ok(rows[rdx + 1])
    ELSE IF rdx < 0 /\ 0 - rdx <= Len(rows) THEN Ok(rows[Len(rows) + rdx + 1])
    ELSE Raise("IndexError")

\* rowindex = self.selectRunID(runnum); row = self.wrows[rowindex]
LookupRun(rows, n2id, runnum) ==
    LET sel == selectRunID(rows, n2id, runnum)
    IN  IF sel.err # "" THEN sel ELSE PyIndex(rows, sel.val)

(***************************************************************************)
(* The views version 2 needs, its check for them and their provisioning.   *)
(* makeViews.sql is not among the source files: running it is taken to     *)
(* create every view of viewList.                                          *)
(***************************************************************************)
viewList ==
    <<"runview", "nctaskview", "ndtaskview", "taskview", "sumv1", "sumv2", "summary">>

\* a faulty checkViews, for comparison: any view in the database will do
checkViews_AnyView(vs) == Cardinality(vs) # 0

checkViews(vs) ==
    IF Cardinality(vs) = 0 THEN FALSE ELSE \A v \in Range(viewList) : v \in vs

MakeViewsSql(vs) == vs \cup Range(viewList)

Select(tables) == [kind |-> "select", on |-> tables]
Ddl(what, names) == [kind |-> what, on |-> names]

\* a faulty storeViews, for comparison: it drops every view of the database
storeViewsQueries_DropAll(vs) ==
    <<Select({"sqlite_master"})>>
    \o (IF vs = {} THEN << >> ELSE <<Ddl("drop view", vs)>>)
    \o <<Ddl("create view", Range(viewList))>>

\* storeViews: the statements it executes, and the views it leaves
storeViewsQueries(vs) ==
    <<Select({"sqlite_master"})>>
    \o (IF vs \cap Range(viewList) = {} THEN << >>
        ELSE <<Ddl("drop view", vs \cap Range(viewList))>>)
    \o <<Ddl("create view", Range(viewList))>>

storeViews(vs) == MakeViewsSql(vs \ Range(viewList))

(***************************************************************************)
(* The main program.  pc runs "main" -> "constructed" -> "dispatch" ->     *)
(* "report" ... and ends in "exit0" (sys.exit()), "exit1" (sys.exit(1)) or *)
(* at the name of an uncaught exception (a traceback).                     *)
(***************************************************************************)
reportTypes(p) ==
    IF p = "wstat"
    THEN {"shortSummary", "taskSummary", "taskHistory", "runNums", "runHistory", "plot"}
    ELSE {"shortSummary", "taskSummary", "taskHistory", "nctaskSummary",
          "runHistory", "recentStatus", "plots"}

\* what a statement reads that holds task-level data
TaskLevelSources ==
    {"task", "try", "status", "summary", "taskview", "nctaskview", "ndtaskview"}

Call(op, rn, pr) == [op |-> op, runnum |-> rn, printSummary |-> pr]

\* pmon.__init__
Construct ==
    /\ pc = "main"
    /\ IF prog = "wstat"
       THEN /\ wrows' = OrderByTimeBegan(workflow)
            /\ queries' = queries \o <<Select({"workflow"})>>
            /\ UNCHANGED <<views, viewsUpdated, out>>
       ELSE IF checkViews(views)
       THEN /\ wrows' = WorkflowJoinRunView(workflow)
            /\ queries' = queries \o <<Select({"sqlite_master"}),
                                       Select({"workflow", "runview"})>>
            /\ UNCHANGED <<views, viewsUpdated, out>>
       ELSE /\ wrows' = WorkflowJoinRunView(workflow)
            /\ views' = storeViews(views)
            /\ viewsUpdated' = TRUE
            /\ out' = out \o <<"WARNING: views missing">>
            /\ queries' = queries \o <<Select({"sqlite_master"})>>
                              \o storeViewsQueries(views)
                              \o <<Select({"workflow", "runview"})>>
    /\ LET idx == IndexRows(prog, wrows', 1, EmptyIndex)
       IN  /\ runid2num' = idx.runid2num
           /\ runnum2id' = idx.runnum2id
           /\ runmin' = idx.runmin
           /\ runmax' = idx.runmax
    /\ numRuns' = Len(wrows')
    /\ pc' = "constructed"
    /\ UNCHANGED <<queryVars, fillVars, sessionVars>>
    /\ UNCHANGED <<prog, matrixVars, workflow, args, pTasksFilled, todo, checked, selected>>

\* "if args.schemas:" ... sys.exit()
MainSchemas ==
    /\ pc = "constructed"
    /\ args.schemas
    /\ queries' = queries \o <<Select({"sqlite_master"})>>
    /\ out' = out \o <<"schemas">>
    /\ pc' = "exit0"
    /\ UNCHANGED <<queryVars, fillVars, sessionVars>>
    /\ UNCHANGED <<prog, matrixVars, dbVars, indexVars, args, viewsUpdated,
                   pTasksFilled, todo, checked, selected>>

\* a faulty --updateViews, for comparison: it does not test viewsUpdated
MainUpdateViews_Unguarded ==
    /\ pc = "constructed"
    /\ prog = "wstat2"
    /\ ~args.schemas
    /\ args.updateViews
    /\ views' = storeViews(views)
    /\ viewsUpdated' = TRUE
    /\ queries' = queries \o storeViewsQueries(views)
    /\ pc' = "exit0"
    /\ UNCHANGED <<queryVars, fillVars, sessionVars>>
    /\ UNCHANGED <<prog, matrixVars, workflow, indexVars, args, pTasksFilled,
                   todo, out, checked, selected>>

\* wstat2.py: "if args.updateViews:" ... sys.exit()
MainUpdateViews ==
    /\ pc = "constructed"
    /\ prog = "wstat2"
    /\ ~args.schemas
    /\ args.updateViews
    /\ IF viewsUpdated
       THEN UNCHANGED <<views, viewsUpdated, queries>>
       ELSE /\ views' = storeViews(views)
            /\ viewsUpdated' = TRUE
            /\ queries' = queries \o storeViewsQueries(views)
    /\ pc' = "exit0"
    /\ UNCHANGED <<queryVars, fillVars, sessionVars>>
    /\ UNCHANGED <<prog, matrixVars, workflow, indexVars, args, pTasksFilled,
                   todo, out, checked, selected>>

\* a faulty range test, for comparison: only the upper bound is tested
RunOutOfRange_UpperOnly(runnum, lo, hi) ==
    runnum # None /\ runnum[1] > hi

\* "not args.runnum == None and (int(args.runnum) > m.runmax or int(args.runnum) < m.runmin)"
RunOutOfRange(runnum, lo, hi) ==
    runnum # None /\ (runnum[1] > hi \/ runnum[1] < lo)

\* wstat.py "## Set task output limit?": if args.taskLimit > 0:
\* m.taskLimit = args.taskLimit; wstat2.py hands args.taskLimit to taskSum
SetTaskLimit(p, limit, old) ==
    IF p = "wstat" /\ limit > 0 THEN limit ELSE old

\* a faulty main program, for comparison: the run number is not checked
MainCheckRun_NoExit ==
    /\ pc = "constructed"
    /\ ~args.schemas
    /\ prog = "wstat2" => ~args.updateViews
    /\ checked' = TRUE
    /\ taskLimit' = SetTaskLimit(prog, args.taskLimit, taskLimit)
    /\ pc' = "dispatch"
    /\ UNCHANGED <<queryVars, nodeUsage, nRunning, usageOut, nCalls, plotTally,
                   sessionVars>>
    /\ UNCHANGED <<prog, matrixVars, dbVars, indexVars, args, viewsUpdated,
                   pTasksFilled, todo, queries, out, selected>>

\* "## Check validity of run number"
MainCheckRun ==
    /\ pc = "constructed"
    /\ ~args.schemas
    /\ prog = "wstat2" => ~args.updateViews
    /\ IF RunOutOfRange(args.runnum, runmin, runmax)
       THEN /\ out' = out \o <<"ERROR: run number out of range">>
            /\ pc' = "exit1"
            /\ UNCHANGED <<checked, taskLimit>>
       ELSE /\ checked' = TRUE
            /\ taskLimit' = SetTaskLimit(prog, args.taskLimit, taskLimit)
            /\ pc' = "dispatch"
            /\ UNCHANGED out
    /\ UNCHANGED <<queryVars, nodeUsage, nRunning, usageOut, nCalls, plotTally,
                   sessionVars>>
    /\ UNCHANGED <<prog, matrixVars, dbVars, indexVars, args, viewsUpdated,
                   pTasksFilled, todo, queries, selected>>

\* the calls each report makes, in order
ReportCalls(p, a) ==
    LET r == a.runnum
    IN  IF p = "wstat"
        THEN CASE a.reportType \in {"taskSummary", "taskHistory"} ->
                    <<Call("printWorkflowSummary", r, FALSE),
                      Call("getTaskData", None, TRUE),
                      Call("printStatusMatrix", r, FALSE)>>
               [] a.reportType = "shortSummary" ->
                    <<Call("printWorkflowSummary", r, FALSE),
                      Call("printStatusMatrix", r, FALSE)>>
               [] a.reportType = "runHistory" -> <<Call("runHistory", None, FALSE)>>
               [] a.reportType = "plot" ->
                    <<Call("printWorkflowSummary", None, FALSE),
                      Call("printStatusMatrix", None, FALSE),
                      Call("plotStats", None, FALSE)>>
               [] a.reportType = "runNums" -> <<Call("runNums", None, FALSE)>>
        ELSE CASE a.reportType = "shortSummary" ->
                    <<Call("printWorkflowSummary", r, FALSE),
                      Call("printStatusMatrix", r, FALSE)>>
               [] a.reportType = "taskSummary" ->
                    <<Call("printWorkflowSummary", r, FALSE),
                      Call("taskSum", r, TRUE)>>
                    \o (IF a.oddball
                        THEN <<Call("nctaskSummary", None, FALSE),
                               Call("ndtaskSummary", None, FALSE)>>
                        ELSE << >>)
                    \o <<Call("printStatusMatrix", r, FALSE)>>
               [] a.reportType = "taskHistory" ->
                    (IF r # None THEN <<Call("printWorkflowSummary", r, FALSE)>>
                     ELSE << >>)
                    \o <<Call("taskHis", r, FALSE),
                         Call("printStatusMatrix", r, FALSE)>>
               [] a.reportType = "nctaskSummary" -> <<Call("nctaskSummary", None, FALSE)>>
               [] a.reportType = "runHistory" -> <<Call("runHistory", None, FALSE)>>
               [] a.reportType = "recentStatus" -> <<Call("recentStatus", None, FALSE)>>
               [] a.reportType = "plots" -> <<Call("plots", None, FALSE)>>

\* a faulty dispatch, for comparison: an unrecognized report type is
\* reported, and the program goes on to its normal end
MainDispatch_NoExit ==
    /\ pc = "dispatch"
    /\ IF args.reportType \in reportTypes(prog)
       THEN /\ todo' = ReportCalls(prog, args)
            /\ UNCHANGED out
       ELSE /\ out' = out \o <<"ERROR: Unrecognized reportType">>
            /\ UNCHANGED todo
    /\ pc' = "report"
    /\ UNCHANGED <<queryVars, fillVars, sessionVars>>
    /\ UNCHANGED <<prog, matrixVars, dbVars, indexVars, args, viewsUpdated,
                   pTasksFilled, queries, checked, selected>>

\* "## Print out requested report": the if/elif chain on args.reportType
MainDispatch ==
    /\ pc = "dispatch"
    /\ IF args.reportType \in reportTypes(prog)
       THEN /\ todo' = ReportCalls(prog, args)
            /\ pc' = "report"
            /\ UNCHANGED out
       ELSE /\ out' = out \o <<"ERROR: Unrecognized reportType">>
            /\ pc' = "exit1"
            /\ UNCHANGED todo
    /\ UNCHANGED <<queryVars, fillVars, sessionVars>>
    /\ UNCHANGED <<prog, matrixVars, dbVars, indexVars, args, viewsUpdated,
                   pTasksFilled, queries, checked, selected>>

\* "## Done" ... sys.exit()
MainDone ==
    /\ pc = "report"
    /\ todo = << >>
    /\ pc' = "exit0"
    /\ UNCHANGED <<queryVars, fillVars, sessionVars>>
    /\ UNCHANGED <<prog, matrixVars, dbVars, indexVars, mainVars>>

(***************************************************************************)
(* The calls of a report.  The task tables are not part of this            *)
(* specification's database: a task query returns one of QueryResults.     *)
(***************************************************************************)
QueryResults ==
    {<< >>,
     <<[task_name |-> "add", status |-> "exec_done"]>>,
     <<[task_name |-> "add", status |-> "running_ended"]>>,
     <<[task_name |-> "add", status |-> "exec_done"],
       [task_name |-> "mul", status |-> "running"]>>}

\* a faulty database read, for comparison: what was returned before for the
\* query does not matter
Answer_Fresh(q) == QueryResults

\* the rows the database returns for a task query: those it returned before
\* for the same query, the database being unchanged
Answer(q) == IF q \in DOMAIN answers THEN {answers[q]} ELSE QueryResults

\* "if self.taskLimit > 0 and grCount >= self.taskLimit: break" (wstat.py),
\* "rows[0:last]" (wstat2.py): the first rows, all of them without a limit
FirstRows(rows, limit) ==
    IF limit > 0 /\ limit < Len(rows) THEN SubSeq(rows, 1, limit) ELSE rows

Head1 == todo[1]

\* printWorkflowSummary(runnum)
StepPrintWorkflowSummary ==
    /\ pc = "report"
    /\ todo # << >>
    /\ Head1.op = "printWorkflowSummary"
    /\ LET row == LookupRun(wrows, runnum2id, Head1.runnum)
       IN  IF row.err # ""
           THEN /\ pc' = row.err
                /\ UNCHANGED <<todo, out, selected>>
           ELSE /\ selected' = Some(row.val)
                /\ out' = out \o <<"Workflow summary">>
                /\ todo' = Tail(todo)
                /\ pc' = pc
    /\ UNCHANGED <<queryVars, fillVars, sessionVars>>
    /\ UNCHANGED <<prog, matrixVars, dbVars, indexVars, args, viewsUpdated,
                   pTasksFilled, queries, checked>>

\* wstat.py getTaskData(runnum, printSummary), returning to pc value next
GetTaskData(runnum, printSummary, next) ==
    LET row == LookupRun(wrows, runnum2id, runnum)
    IN  IF row.err # ""
        THEN /\ pc' = row.err
             /\ UNCHANGED <<todo, out, selected, queries, pTasks, pTasksFilled,
                            listed, answers>>
        ELSE /\ selected' = Some(row.val)
             /\ queries' = queries \o <<Select({"task", "try", "status"})>>
             /\ \E rows \in Answer(Select({"task", "try", "status"})) :
                    /\ answers' = DictSet(answers, Select({"task", "try", "status"}), rows)
                    /\ pTasks' = pTasks \o FirstRows(rows, taskLimit)
             /\ out' = IF printSummary THEN out \o <<"task table">> ELSE out
             /\ listed' = IF printSummary THEN Some(pTasks') ELSE listed
             /\ pTasksFilled' = TRUE
             /\ todo' = Tail(todo)
             /\ pc' = next

\* wstat2.py loadTaskData(what, where)
LoadTaskData ==
    /\ queries' = queries \o <<Select({"summary"})>>
    /\ \E rows \in Answer(Select({"summary"})) :
           /\ answers' = DictSet(answers, Select({"summary"}), rows)
           /\ pTasks' = rows
    /\ pTasksFilled' = TRUE

\* wstat.py: the report's call of getTaskData
StepGetTaskData ==
    /\ pc = "report"
    /\ todo # << >>
    /\ Head1.op = "getTaskData"
    /\ GetTaskData(Head1.runnum, Head1.printSummary, "report")
    /\ UNCHANGED <<queryVars, fillVars, earlier>>
    /\ UNCHANGED <<prog, taskStats, statTotals, nTasks, nTaskTypes, tIdx, dbVars,
                   indexVars, args, viewsUpdated, checked>>

\* wstat2.py taskSum: the query and the table of the selected tasks
StepTaskSum ==
    /\ pc = "report"
    /\ todo # << >>
    /\ Head1.op = "taskSum"
    /\ LoadTaskData
    /\ out' = out \o <<"task table">>
    /\ listed' = Some(FirstRows(pTasks', IF args.taskLimit = None THEN 0
                                         ELSE args.taskLimit[1]))
    /\ todo' = Tail(todo)
    /\ UNCHANGED <<queryVars, fillVars, earlier>>
    /\ UNCHANGED <<prog, pc, taskStats, statTotals, nTasks, nTaskTypes, tIdx, dbVars,
                   indexVars, args, viewsUpdated, checked, selected>>

\* printStatusMatrix(runnum) / taskStatusMatrix(runnum): load the task rows
\* unless they are loaded, then tally them
StepPrintStatusMatrix ==
    /\ pc = "report"
    /\ todo # << >>
    /\ Head1.op = "printStatusMatrix"
    /\ IF pTasksFilled
       THEN /\ pc' = "matrix"
            /\ todo' = Tail(todo)
            /\ UNCHANGED <<pTasks, pTasksFilled, queries, out, selected, listed,
                           answers>>
       ELSE IF prog = "wstat"
       THEN GetTaskData(Head1.runnum, FALSE, "matrix")
       ELSE /\ LoadTaskData
            /\ pc' = "matrix"
            /\ todo' = Tail(todo)
            /\ UNCHANGED <<out, selected, listed>>
    /\ UNCHANGED <<queryVars, fillVars, earlier>>
    /\ UNCHANGED <<prog, taskStats, statTotals, nTasks, nTaskTypes, tIdx, dbVars,
                   indexVars, args, viewsUpdated, checked>>

\* the matrix is printed, or there was nothing to do: back in the report
MatrixReturn ==
    /\ pc \in {"rendered", "nothing"}
    /\ pc' = "report"
    /\ UNCHANGED <<queryVars, fillVars, sessionVars>>
    /\ UNCHANGED <<prog, matrixVars, dbVars, indexVars, mainVars>>

\* wstat2.py taskHis
StepTaskHis ==
    /\ pc = "report"
    /\ todo # << >>
    /\ Head1.op = "taskHis"
    /\ IF args.tasknum = None
       THEN /\ out' = out \o <<"ERROR: you must specify a task number">>
            /\ UNCHANGED queries
       ELSE /\ queries' = queries \o <<Select({"taskview", "try", "status", "runview"})>>
            /\ out' = out \o <<"task history">>
    /\ todo' = Tail(todo)
    /\ UNCHANGED <<queryVars, fillVars, sessionVars>>
    /\ UNCHANGED <<prog, pc, matrixVars, dbVars, indexVars, args, viewsUpdated,
                   pTasksFilled, checked, selected>>

\* the statements and the output of the remaining calls
OtherQueries(p, op) ==
    CASE op = "runHistory" ->
            IF p = "wstat" THEN <<Select({"workflow"})>> ELSE << >>
      [] op = "nctaskSummary" -> <<Select({"nctaskview"})>>
      [] op = "ndtaskSummary" -> <<Select({"ndtaskview"})>>
      [] op = "recentStatus" -> <<Select({"taskview", "try", "status", "runview"})>>
      [] OTHER -> << >>

OtherOps ==
    {"runHistory", "runNums", "plotStats", "nctaskSummary", "ndtaskSummary",
     "recentStatus", "plots"}

\* runHistory, runNums, plotStats, nctaskSummary, ndtaskSummary, recentStatus, plots
StepOther ==
    /\ pc = "report"
    /\ todo # << >>
    /\ Head1.op \in OtherOps
    /\ queries' = queries \o OtherQueries(prog, Head1.op)
    /\ out' = IF Head1.op = "plots" THEN out ELSE out \o <<Head1.op>>
    /\ todo' = Tail(todo)
    /\ UNCHANGED <<queryVars, fillVars, sessionVars>>
    /\ UNCHANGED <<prog, pc, matrixVars, dbVars, indexVars, args, viewsUpdated,
                   pTasksFilled, checked, selected>>

(***************************************************************************)
(* The status matrix on its own: any program, any list of up to MaxRows    *)
(* task rows.  Task names are the workflow's function names; the row       *)
(* states include one state only version 2 knows (running_ended) and one   *)
(* no version knows (bogus).                                               *)
(***************************************************************************)
TaskNames == {"add", "mul", "TOTAL"}
RowStates == {"exec_done", "failed", "running_ended", "bogus"}
MatrixRows == [task_name : TaskNames, status : RowStates]

SeqsUpTo(S, n) == UNION {[1..k -> S] : k \in 0..n}

\* the values of the variables a specification does not use
IdleDb == workflow = {} /\ views = {}

IdleIndex ==
    /\ wrows = None
    /\ runid2num = None
    /\ runnum2id = None
    /\ numRuns = 0
    /\ runmin = RunMinInit
    /\ runmax = RunMaxInit

IdleQuery ==
    /\ task = {}
    /\ try = {}
    /\ status = {}
    /\ call = None
    /\ tRowz = << >>

IdleFill ==
    /\ nodeUsage = << >>
    /\ nRunning = 0
    /\ taskLimit = 0
    /\ usageOut = << >>
    /\ nCalls = 0
    /\ plotTally = << >>

IdleSession ==
    /\ listed = << >>
    /\ answers = << >>
    /\ earlier = << >>

IdleMain ==
    /\ args = None
    /\ viewsUpdated = FALSE
    /\ todo = << >>
    /\ queries = << >>
    /\ out = << >>
    /\ checked = FALSE
    /\ selected = None

InitMatrix ==
    /\ prog \in Programs
    /\ pc = "matrix"
    /\ pTasks \in SeqsUpTo(MatrixRows, MaxRows)
    /\ taskStats = EmptyDict
    /\ statTotals = EmptyDict
    /\ nTasks = 0
    /\ nTaskTypes = 0
    /\ tIdx = 1
    /\ pTasksFilled = TRUE
    /\ IdleDb
    /\ IdleIndex
    /\ IdleMain
    /\ IdleFill
    /\ IdleSession
    /\ IdleQuery

NextMatrix == MatrixBegin \/ TallyRow \/ MatrixRender

SpecMatrix == InitMatrix /\ [][NextMatrix]_vars

(***************************************************************************)
(* The main program: either version, any workflow table of up to MaxRuns   *)
(* runs, any command line.  Version 1 reads the run number from the        *)
(* rundir, which the database does not constrain; version 2 does not read  *)
(* it.                                                                     *)
(***************************************************************************)
RunIds == <<"run-a", "run-b", "run-c", "run-d", "run-e", "run-f">>

\* the name runinfo/NNN of the n-th run directory
RunDirName(n) == <<n \div 100, (n \div 10) % 10, n % 10>>

RunDirs == {RunDirName(n) : n \in 0..MaxRunDir}

WorkflowTables(p) ==
    UNION {
        {{[run_id |-> RunIds[i], time_began |-> i, rundir |-> f[i]] : i \in 1..n}
            : f \in IF p = "wstat" THEN [1..n -> RunDirs]
                    ELSE {[i \in 1..n |-> RunDirName(i - 1)]}}
        : n \in 0..MaxRuns}

ViewSets == {{}, {"runview", "taskview", "userview"}, Range(viewList)}

RunArgs == {None} \cup {Some(n) : n \in 0..MaxRunArg}

\* the command lines: --taskLimit is given with the taskSummary report only
ArgSets(p) ==
    {a \in [reportType : reportTypes(p) \cup {"bogusReport"},
            runnum : RunArgs,
            schemas : BOOLEAN,
            updateViews : IF p = "wstat" THEN {FALSE} ELSE BOOLEAN,
            tasknum : IF p = "wstat" THEN {None} ELSE {None, Some(0)},
            taskLimit : IF p = "wstat" THEN {0, 1} ELSE {None, Some(1)},
            oddball : IF p = "wstat" THEN {FALSE} ELSE BOOLEAN] :
        \/ a.reportType = "taskSummary"
        \/ a.taskLimit = (IF p = "wstat" THEN 0 ELSE None)}

Init ==
    /\ prog \in Programs
    /\ pc = "main"
    /\ workflow \in WorkflowTables(prog)
    /\ views \in IF prog = "wstat" THEN {{}} ELSE ViewSets
    /\ args \in ArgSets(prog)
    /\ pTasks = << >>
    /\ taskStats = EmptyDict
    /\ statTotals = EmptyDict
    /\ nTasks = 0
    /\ nTaskTypes = 0
    /\ tIdx = 1
    /\ pTasksFilled = FALSE
    /\ IdleIndex
    /\ viewsUpdated = FALSE
    /\ todo = << >>
    /\ queries = << >>
    /\ out = << >>
    /\ checked = FALSE
    /\ selected = None
    /\ IdleQuery
    /\ IdleFill
    /\ IdleSession

Next ==
    \/ Construct
    \/ MainSchemas
    \/ MainUpdateViews
    \/ MainCheckRun
    \/ MainDispatch
    \/ MainDone
    \/ StepPrintWorkflowSummary
    \/ StepGetTaskData
    \/ StepTaskSum
    \/ StepPrintStatusMatrix
    \/ StepTaskHis
    \/ StepOther
    \/ MatrixBegin
    \/ TallyRow
    \/ MatrixRender
    \/ MatrixReturn

Spec == Init /\ [][Next]_vars

(***************************************************************************)
(* Two invocations with the same command line, one after the other, on a   *)
(* database nothing else writes to.  The second process starts from a new  *)
(* pmon object; the database keeps the views the first one created.        *)
(***************************************************************************)
\* the values of pc at which main or a report has a step to take
Running ==
    {"main", "constructed", "dispatch", "report", "matrix", "tally", "rendered",
     "nothing"}

\* the process has ended: sys.exit or an uncaught exception
Ended == pc \notin Running

\* what an invocation has printed in tables, and how it ended
Printed ==
    [pc |-> pc, out |-> out, selected |-> selected, listed |-> listed,
     taskStats |-> taskStats]

\* the first invocation has ended: the same command is given again
RunAgain ==
    /\ Ended
    /\ earlier = None
    /\ earlier' = Some(Printed)
    /\ pc' = "main"
    /\ pTasks' = << >>
    /\ taskStats' = EmptyDict
    /\ statTotals' = EmptyDict
    /\ nTasks' = 0
    /\ nTaskTypes' = 0
    /\ tIdx' = 1
    /\ pTasksFilled' = FALSE
    /\ wrows' = None
    /\ runid2num' = None
    /\ runnum2id' = None
    /\ numRuns' = 0
    /\ runmin' = RunMinInit
    /\ runmax' = RunMaxInit
    /\ viewsUpdated' = FALSE
    /\ todo' = << >>
    /\ queries' = << >>
    /\ out' = << >>
    /\ checked' = FALSE
    /\ selected' = None
    /\ taskLimit' = 0
    /\ listed' = None
    /\ UNCHANGED <<prog, args, dbVars, answers, queryVars, nodeUsage, nRunning,
                   usageOut, nCalls, plotTally>>

\* a report is asked for: neither --schemas nor --updateViews is given; the
\* runs of the workflow table are numbered 000, 001, ... in the order they began
InitTwice ==
    /\ Init
    /\ ~args.schemas
    /\ ~args.updateViews
    /\ ~args.oddball
    /\ workflow \in WorkflowTables("wstat2")

NextTwice ==
    \/ Construct
    \/ MainCheckRun
    \/ MainDispatch
    \/ MainDone
    \/ StepPrintWorkflowSummary
    \/ StepGetTaskData
    \/ StepTaskSum
    \/ StepPrintStatusMatrix
    \/ StepTaskHis
    \/ StepOther
    \/ MatrixBegin
    \/ TallyRow
    \/ MatrixRender
    \/ MatrixReturn
    \/ RunAgain

SpecTwice == InitTwice /\ [][NextTwice]_vars

(***************************************************************************)
(* The task tables of the monitoring database and the Summary-mode query   *)
(* of getTaskData (version 1).  A task row holds run_id, task_id and       *)
(* task_func_name; a try row run_id, task_id and try_id; a status row      *)
(* run_id, task_id, try_id, timestamp and task_status_name.  The columns   *)
(* the query only copies are left out.                                     *)
(***************************************************************************)

\* the runs, task ids, attempts, function names and event states of the
\* task tables
QueryRunIds == {"run-a", "run-b"}
TaskIds == {0, 1}
TryIds == {0, 1}
FuncNameOf == [i \in TaskIds |-> IF i = 0 THEN "add" ELSE "mul"]
FuncNames == {FuncNameOf[i] : i \in TaskIds}
EventStates == {"running", "exec_done"}

\* "from task t join try y on (...) join status s on (...)"
SummaryJoin(tt, yy, ss) ==
    {j \in [t : tt, y : yy, s : ss] :
        /\ j.t.run_id = j.y.run_id /\ j.t.task_id = j.y.task_id
        /\ j.y.run_id = j.s.run_id /\ j.y.task_id = j.s.task_id
        /\ j.y.try_id = j.s.try_id}

\* the where clause built from taskID and taskName
Where(j, taskID, taskName) ==
    /\ taskID # None => j.t.task_id = taskID[1]
    /\ taskName # None => j.t.task_func_name = taskName[1]

\* "group by t.task_id": the group of one task_id
Group(J, id) == {j \in J : j.t.task_id = id}

\* the rows of a group that carry max(s.timestamp); SQLite takes the bare
\* columns of the result row from one of them
MaxRowsOf(g) == {j \in g : \A k \in g : k.s.timestamp <= j.s.timestamp}

\* the selected columns of a result row
SummaryRow(j) ==
    [run_id |-> j.t.run_id, task_id |-> j.t.task_id,
     task_func_name |-> j.t.task_func_name, timestamp |-> j.s.timestamp,
     task_status_name |-> j.s.task_status_name, try_id |-> j.y.try_id]

\* one row per group, "order by t.task_id asc"
RECURSIVE OrderByTaskId(_, _)
OrderByTaskId(J, ids) ==
    IF ids = {} THEN {<< >>}
    ELSE LET m == CHOOSE i \in ids : \A k \in ids : i <= k
         IN  {<<SummaryRow(j)>> \o rest :
                 j \in MaxRowsOf(Group(J, m)),
                 rest \in OrderByTaskId(J, ids \ {m})}

\* the row lists the Summary-mode query may return
SummaryQueryResults(tt, yy, ss, taskID, taskName) ==
    LET J == {j \in SummaryJoin(tt, yy, ss) : Where(j, taskID, taskName)}
    IN  OrderByTaskId(J, {j.t.task_id : j \in J})

\* getTaskData(repType="Summary") from the built query to the fetched rows
SummaryQuery ==
    /\ pc = "query"
    /\ \E taskID \in {None} \cup {Some(i) : i \in TaskIds},
          taskName \in {None} \cup {Some(n) : n \in FuncNames} :
          /\ call' = Some([repType |-> "Summary", taskID |-> taskID,
                           taskName |-> taskName])
          /\ tRowz' \in SummaryQueryResults(task, try, status, taskID, taskName)
    /\ pc' = "fetched"
    /\ UNCHANGED <<prog, task, try, status>>
    /\ UNCHANGED <<matrixVars, dbVars, indexVars, mainVars, fillVars, sessionVars>>

(***************************************************************************)
(* The Summary-mode query on its own: version 1, any task, try and status  *)
(* tables of up to MaxTasks, MaxTries and MaxEvents rows over two runs.    *)
(* Try rows and status rows belong to tasks of the task table; a status    *)
(* row may lack its try row.  Timestamps carry microseconds: no two status *)
(* rows share one.                                                         *)
(***************************************************************************)
RECURSIVE SubsetsUpTo(_, _)
SubsetsUpTo(S, n) ==
    IF n = 0 THEN {{}}
    ELSE LET T == SubsetsUpTo(S, n - 1)
         IN  T \cup {s \cup {x} : s \in T, x \in S}

TaskRowsAll ==
    {[run_id |-> r, task_id |-> i, task_func_name |-> FuncNameOf[i]] :
        r \in QueryRunIds, i \in TaskIds}

TryRowsOf(tt) ==
    {[run_id |-> t.run_id, task_id |-> t.task_id, try_id |-> y] :
        t \in tt, y \in TryIds}

StatusRowsOf(tt) ==
    {[run_id |-> t.run_id, task_id |-> t.task_id, try_id |-> y,
      timestamp |-> ts, task_status_name |-> st] :
        t \in tt, y \in TryIds, ts \in 1..MaxTime, st \in EventStates}

InitQuery ==
    /\ prog = "wstat"
    /\ pc = "query"
    /\ task \in SubsetsUpTo(TaskRowsAll, MaxTasks)
    /\ try \in SubsetsUpTo(TryRowsOf(task), MaxTries)
    /\ status \in {ss \in SubsetsUpTo(StatusRowsOf(task), MaxEvents) :
                       \A a, b \in ss : a # b => a.timestamp # b.timestamp}
    /\ call = None
    /\ tRowz = << >>
    /\ pTasks = << >>
    /\ taskStats = EmptyDict
    /\ statTotals = EmptyDict
    /\ nTasks = 0
    /\ nTaskTypes = 0
    /\ tIdx = 1
    /\ pTasksFilled = FALSE
    /\ IdleDb
    /\ IdleIndex
    /\ IdleMain
    /\ IdleFill
    /\ IdleSession

NextQuery == SummaryQuery

SpecQuery == InitQuery /\ [][NextQuery]_vars

(***************************************************************************)
(* The History-mode query of getTaskData (version 1): the same join, no    *)
(* grouping, a where clause built from taskID alone, "order by             *)
(* t.task_id,s.timestamp asc".                                             *)
(***************************************************************************)

\* the where clause of History mode: taskName is not looked at
HistoryWhere(j, taskID) == taskID # None => j.t.task_id = taskID[1]

\* the selected columns of a History row: s.timestamp in place of max(s.timestamp)
HistoryRow(j) ==
    [run_id |-> j.t.run_id, task_id |-> j.t.task_id,
     task_func_name |-> j.t.task_func_name, timestamp |-> j.s.timestamp,
     task_status_name |-> j.s.task_status_name, try_id |-> j.y.try_id]

\* a faulty order, for comparison: the rows come back in any order
OrderedByTaskIdTimestamp_Any(rows) == TRUE

\* "order by t.task_id,s.timestamp asc"
OrderedByTaskIdTimestamp(rows) ==
    \A a, b \in DOMAIN rows :
        a < b => \/ rows[a].task_id < rows[b].task_id
                 \/ /\ rows[a].task_id = rows[b].task_id
                    /\ rows[a].timestamp <= rows[b].timestamp

\* the sequences that list every element of the set S once
RECURSIVE ListingsOf(_)
ListingsOf(S) ==
    IF S = {} THEN {<< >>}
    ELSE UNION {{<<x>> \o rest : rest \in ListingsOf(S \ {x})} : x \in S}

\* the row lists the History-mode query may return
HistoryQueryResults(tt, yy, ss, taskID) ==
    LET J == {j \in SummaryJoin(tt, yy, ss) : HistoryWhere(j, taskID)}
    IN  {[i \in DOMAIN l |-> HistoryRow(l[i])] : l \in
            {k \in ListingsOf(J) :
                OrderedByTaskIdTimestamp([i \in DOMAIN k |-> HistoryRow(k[i])])}}

\* getTaskData(repType="History") from the built query to the fetched rows
HistoryQuery ==
    /\ pc = "query"
    /\ prog = "wstat"
    /\ \E taskID \in {None} \cup {Some(i) : i \in TaskIds},
          taskName \in {None, Some("mul")} :
          /\ call' = Some([repType |-> "History", taskID |-> taskID,
                           taskName |-> taskName])
          /\ tRowz' \in HistoryQueryResults(task, try, status, taskID)
    /\ pc' = "fetched"
    /\ UNCHANGED <<prog, task, try, status>>
    /\ UNCHANGED <<matrixVars, dbVars, indexVars, mainVars, fillVars, sessionVars>>

(***************************************************************************)
(* Version 2's task history (taskHis with taskHistoryQuery).  The views    *)
(* taskview and runview are not among the source files: the task that a    *)
(* tasknum names may be any task of the task table, or none, and a run     *)
(* number stands for the run_id runview pairs it with.  The join is the    *)
(* one stdSources spells out: tries by task_id, status rows by task_id and *)
(* try_id within the try's run.                                            *)
(***************************************************************************)

\* strftime('%Y-%m-%d %H:%M:%S', s.timestamp): the sub-second part is cut
\* off; a second holds two ticks of the model's clock
DisplayTime(ts) == (ts + 1) \div 2

\* stdSources for the taskview row tv
StdSources(tv, yy, ss) ==
    {j \in [t : {tv}, y : yy, s : ss] :
        /\ j.t.task_id = j.y.task_id
        /\ j.y.run_id = j.s.run_id /\ j.t.task_id = j.s.task_id
        /\ j.y.try_id = j.s.try_id}

\* morewhere: " and rv.runnum=... and status=..."
MoreWhere(j, runnum, st) ==
    /\ runnum # None => j.y.run_id = runnum[1]
    /\ st # None => j.s.task_status_name = st[1]

\* stdVariables: run_id stands for rv.runnum, task_status_name for the
\* column labelled status
TaskHistoryRow(j) ==
    [run_id |-> j.y.run_id, task_id |-> j.t.task_id,
     task_func_name |-> j.t.task_func_name,
     timestamp |-> DisplayTime(j.s.timestamp),
     task_status_name |-> j.s.task_status_name, try_id |-> j.y.try_id]

\* "order by s.timestamp asc"
OrderedByTimestamp(js) ==
    \A a, b \in DOMAIN js : a < b => js[a].s.timestamp <= js[b].s.timestamp

\* the row lists taskHistoryQuery may return for the taskview row tv
TaskHistoryQueryResults(tv, yy, ss, runnum, st) ==
    LET J == {j \in StdSources(tv, yy, ss) : MoreWhere(j, runnum, st)}
    IN  {[i \in DOMAIN l |-> TaskHistoryRow(l[i])] :
            l \in {k \in ListingsOf(J) : OrderedByTimestamp(k)}}

\* wstat2.py taskHis(runnum, tasknum, status)
TaskHisQuery ==
    /\ pc = "query"
    /\ prog = "wstat2"
    /\ \E runnum \in {None, Some("run-a")},
          st \in {None, Some("running")},
          tv \in {None} \cup {Some(t) : t \in task} :
       \E tasknum \in (IF tv = None THEN BOOLEAN ELSE {TRUE}) :
          /\ call' = Some([repType |-> "History", runnum |-> runnum,
                           tasknum |-> IF tasknum THEN tv ELSE None,
                           taskID |-> IF tasknum /\ tv # None
                                      THEN Some(tv[1].task_id) ELSE None,
                           taskName |-> None, taskStatus |-> st])
          /\ IF ~tasknum
             THEN /\ pc' = "noTasknum"
                  /\ UNCHANGED tRowz
             ELSE /\ pc' = "fetched"
                  /\ tRowz' \in IF tv = None THEN {<< >>}
                                ELSE TaskHistoryQueryResults(tv[1], try, status,
                                                             runnum, st)
    /\ UNCHANGED <<prog, task, try, status>>
    /\ UNCHANGED <<matrixVars, dbVars, indexVars, mainVars, fillVars, sessionVars>>

(***************************************************************************)
(* The History-mode queries on their own, over task, try and status tables *)
(* like those of the Summary-mode query; the status events are numbered by *)
(* their timestamps, 1 for the earliest.                                   *)
(***************************************************************************)
InitHistory ==
    /\ prog \in Programs
    /\ pc = "query"
    /\ task \in SubsetsUpTo(TaskRowsAll, MaxTasks)
    /\ try \in SubsetsUpTo(TryRowsOf(task), MaxHistTries)
    /\ status \in {ss \in SubsetsUpTo(StatusRowsOf(task), MaxEvents) :
                       /\ \A a, b \in ss : a # b => a.timestamp # b.timestamp
                       /\ {a.timestamp : a \in ss} = 1..Cardinality(ss)}
    /\ call = None
    /\ tRowz = << >>
    /\ pTasks = << >>
    /\ taskStats = EmptyDict
    /\ statTotals = EmptyDict
    /\ nTasks = 0
    /\ nTaskTypes = 0
    /\ tIdx = 1
    /\ pTasksFilled = FALSE
    /\ IdleDb
    /\ IdleIndex
    /\ IdleMain
    /\ IdleFill
    /\ IdleSession

NextHistory ==
    \/ HistoryQuery
    \/ TaskHisQuery

SpecHistory == InitHistory /\ [][NextHistory]_vars

\* the same queries on a log whose try table is complete: every status
\* event has the row of its attempt
InitHistoryLogged ==
    /\ InitHistory
    /\ \A s \in status :
          \E y \in try : /\ y.run_id = s.run_id
                         /\ y.task_id = s.task_id
                         /\ y.try_id = s.try_id

SpecHistoryLogged == InitHistoryLogged /\ [][NextHistory]_vars

(***************************************************************************)
(* getTaskData (version 1) after the query: the loop over tRowz that       *)
(* applies the status filter, shapes a row of pTasks, counts running tasks *)
(* per host and stops at taskLimit; then the node usage summary.           *)
(***************************************************************************)

\* the characters of the status names and literals
Spell(w) ==
    CASE w = "pending" -> <<"p", "e", "n", "d", "i", "n", "g">>
    [] w = "launched" -> <<"l", "a", "u", "n", "c", "h", "e", "d">>
    [] w = "running" -> <<"r", "u", "n", "n", "i", "n", "g">>
    [] w = "joining" -> <<"j", "o", "i", "n", "i", "n", "g">>
    [] w = "running_ended" -> <<"r", "u", "n", "n", "i", "n", "g", "_", "e", "n", "d", "e", "d">>
    [] w = "unsched" -> <<"u", "n", "s", "c", "h", "e", "d">>
    [] w = "unknown" -> <<"u", "n", "k", "n", "o", "w", "n">>
    [] w = "exec_done" -> <<"e", "x", "e", "c", "_", "d", "o", "n", "e">>
    [] w = "memo_done" -> <<"m", "e", "m", "o", "_", "d", "o", "n", "e">>
    [] w = "failed" -> <<"f", "a", "i", "l", "e", "d">>
    [] w = "dep_fail" -> <<"d", "e", "p", "_", "f", "a", "i", "l">>
    [] w = "fail_retryable" -> <<"f", "a", "i", "l", "_", "r", "e", "t", "r", "y", "a", "b", "l", "e">>
    [] w = "done" -> <<"d", "o", "n", "e">>
    [] w = "fail" -> <<"f", "a", "i", "l">>

\* Python "sub in s" on two strings: sub occurs in s as a substring
PyIn(sub, s) ==
    LET a == Spell(sub)
        b == Spell(s)
    IN  \E i \in 0..(Len(b) - Len(a)) : SubSeq(b, i + 1, i + Len(a)) = a

\* self.statPresets
statPresets(p) ==
    [notdone |-> {"pending", "launched", "running"},
     runz    |-> IF p = "wstat"
                 THEN {"running", "exec_done", "memo_done", "failed",
                       "dep_fail", "fail_retryable"}
                 ELSE {"running", "joining", "running_ended", "exec_done",
                       "memo_done", "failed", "dep_fail", "fail_retryable"},
     dead    |-> {"exec_done", "memo_done", "failed", "dep_fail", "fail_retryable"},
     oddball |-> {"unsched", "unknown"}]

\* "if taskStatus != None: ... if not keep: continue"
Keep(p, taskStatus, st) ==
    IF taskStatus = None THEN TRUE
    ELSE IF taskStatus[1] \in DOMAIN statPresets(p)
    THEN st \in statPresets(p)[taskStatus[1]]
    ELSE PyIn(taskStatus[1], st)

\* stripms: the time without its sub-second part, None for None
stripms(intime) == IF intime = None THEN None ELSE Some(DisplayTime(intime[1]))

\* a faulty difference, for comparison: a missing end counts as the start
timeDiff_ZeroForMissing(start, end) ==
    IF start = None THEN None
    ELSE IF end = None THEN Some(0)
    ELSE Some(end[1] - start[1])

\* timeDiff
timeDiff(start, end) ==
    IF start = None \/ end = None THEN None ELSE Some(end[1] - start[1])

\* "pTask = [...]": the row of pTasks shaped from a fetched row
ShapeTask(row, rid2num) ==
    [task_id |-> row.task_id, task_name |-> row.task_func_name,
     run_num |-> rid2num[row.run_id], status |-> row.task_status_name,
     hostname |-> row.hostname, try |-> row.try_id,
     submitTime |-> stripms(row.task_try_time_launched),
     startTime |-> stripms(row.task_try_time_running),
     endTime |-> stripms(row.task_try_time_returned),
     runTime |-> timeDiff(row.task_try_time_running, row.task_try_time_returned)]

\* a faulty count, for comparison: a task without a host is not counted
CountRunning_DropNoHost(usage, row) ==
    IF row.hostname = None THEN usage
    ELSE IF row.hostname[1] \in DOMAIN usage
         THEN [usage EXCEPT ![row.hostname[1]] = @ + 1]
         ELSE DictSet(usage, row.hostname[1], 1)

\* "Fill nodeUsage dict": one more running task on the row's host
CountRunning(usage, row) ==
    LET hn == IF row.hostname = None THEN "unknown" ELSE row.hostname[1]
    IN  IF hn \in DOMAIN usage THEN [usage EXCEPT ![hn] = @ + 1]
        ELSE DictSet(usage, hn, 1)

\* the loop "for row in tRowz", from row i on; acc holds grCount, nRunning,
\* nodeUsage and pTasks
RECURSIVE FillLoop(_, _, _, _, _, _, _)
FillLoop(p, rows, i, taskStatus, limit, rid2num, acc) ==
    IF i > Len(rows) THEN acc
    ELSE IF ~Keep(p, taskStatus, rows[i].task_status_name)
    THEN FillLoop(p, rows, i + 1, taskStatus, limit, rid2num, acc)
    ELSE LET run == rows[i].task_status_name = "running"
             nxt == [grCount   |-> acc.grCount + 1,
                     nRunning  |-> IF run THEN acc.nRunning + 1 ELSE acc.nRunning,
                     nodeUsage |-> IF run THEN CountRunning(acc.nodeUsage, rows[i])
                                   ELSE acc.nodeUsage,
                     pTasks    |-> Append(acc.pTasks, ShapeTask(rows[i], rid2num))]
         IN  IF limit > 0 /\ nxt.grCount >= limit THEN nxt
             ELSE FillLoop(p, rows, i + 1, taskStatus, limit, rid2num, nxt)

\* a faulty getTaskData, for comparison: it empties pTasks before its loop
FillTasks_Cleared ==
    /\ pc = "fetched"
    /\ prog = "wstat"
    /\ LET acc == FillLoop(prog, tRowz, 1, call[1].taskStatus, taskLimit, runid2num,
                           [grCount |-> 0, nRunning |-> 0,
                            nodeUsage |-> nodeUsage, pTasks |-> << >>])
       IN  /\ pTasks' = acc.pTasks
           /\ nodeUsage' = acc.nodeUsage
           /\ nRunning' = acc.nRunning
           /\ usageOut' = IF DOMAIN acc.nodeUsage # {}
                          THEN Some([nodes   |-> acc.nodeUsage,
                                     active  |-> Cardinality(DOMAIN acc.nodeUsage),
                                     running |-> acc.nRunning])
                          ELSE None
    /\ pTasksFilled' = TRUE
    /\ nCalls' = nCalls + 1
    /\ pc' = "filled"
    /\ UNCHANGED <<prog, taskStats, statTotals, nTasks, nTaskTypes, tIdx, dbVars,
                   indexVars, args, viewsUpdated, todo, queries, out, checked,
                   selected, task, try, status, call, tRowz, taskLimit, plotTally, sessionVars>>

\* getTaskData from the fetched rows to its return
FillTasks ==
    /\ pc = "fetched"
    /\ prog = "wstat"
    /\ LET acc == FillLoop(prog, tRowz, 1, call[1].taskStatus, taskLimit, runid2num,
                           [grCount |-> 0, nRunning |-> 0,
                            nodeUsage |-> nodeUsage, pTasks |-> pTasks])
       IN  /\ pTasks' = acc.pTasks
           /\ nodeUsage' = acc.nodeUsage
           /\ nRunning' = acc.nRunning
           /\ usageOut' = IF DOMAIN acc.nodeUsage # {}
                          THEN Some([nodes   |-> acc.nodeUsage,
                                     active  |-> Cardinality(DOMAIN acc.nodeUsage),
                                     running |-> acc.nRunning])
                          ELSE None
    /\ pTasksFilled' = TRUE
    /\ nCalls' = nCalls + 1
    /\ pc' = "filled"
    /\ UNCHANGED <<prog, taskStats, statTotals, nTasks, nTaskTypes, tIdx, dbVars,
                   indexVars, args, viewsUpdated, todo, queries, out, checked,
                   selected, task, try, status, call, tRowz, taskLimit, plotTally, sessionVars>>

\* a further call of getTaskData on the instance, with the same arguments:
\* the database has not changed, the query returns the same rows
CallAgain ==
    /\ pc = "filled"
    /\ nCalls < MaxCalls
    /\ pc' = "fetched"
    /\ UNCHANGED <<prog, matrixVars, dbVars, indexVars, mainVars, queryVars, fillVars, sessionVars>>

\* printStatusMatrix goes on after its call of getTaskData (shortSummary), or
\* is called after getTaskData with pTasks filled (taskSummary)
FillMatrix ==
    /\ pc = "filled"
    /\ pTasksFilled
    /\ pc' = "matrix"
    /\ UNCHANGED <<prog, matrixVars, dbVars, indexVars, mainVars, queryVars, fillVars, sessionVars>>

\* the workflow table of the fill specification: two runs, 000 and 001
FillWorkflow ==
    {[run_id |-> (IF n = 1 THEN "run-a" ELSE "run-b"), time_began |-> n, rundir |-> RunDirName(n - 1)]
        : n \in 1..2}

FetchedStates == {"pending", "running", "joining", "running_ended", "exec_done"}
Hosts == {None, Some("node07")}

\* the times of an attempt in the given state: launched, running, returned
TimesOf(st) ==
    IF st = "pending" THEN <<None, None, None>>
    ELSE IF st \in {"running", "joining"} THEN <<Some(1), Some(2), None>>
    ELSE <<Some(1), Some(2), Some(4)>>

\* the i-th row the task query returns
FetchedRow(i, rid, tid, st, hn) ==
    [run_id |-> rid, task_id |-> tid, task_func_name |-> FuncNameOf[tid],
     timestamp |-> i, task_status_name |-> st, hostname |-> hn, try_id |-> 0,
     task_try_time_launched |-> TimesOf(st)[1],
     task_try_time_running |-> TimesOf(st)[2],
     task_try_time_returned |-> TimesOf(st)[3]]

\* the results the task query can return: in ascending task_id order, one
\* row per task_id for a Summary, ascending timestamps for a History
FetchedRows(repType) ==
    {rows \in UNION {[1..k -> [rid : QueryRunIds, tid : TaskIds,
                               st : FetchedStates, hn : Hosts]] : k \in 0..MaxFetched} :
        \A a, b \in DOMAIN rows : a < b =>
            IF repType = "Summary" THEN rows[a].tid < rows[b].tid
            ELSE rows[a].tid <= rows[b].tid}

StatusArgs == {None, Some("notdone"), Some("runz"), Some("running"), Some("done")}

InitFill ==
    /\ prog = "wstat"
    /\ pc = "fetched"
    /\ workflow = FillWorkflow
    /\ views = {}
    /\ wrows = OrderByTimeBegan(workflow)
    /\ LET idx == IndexRows(prog, wrows, 1, EmptyIndex)
       IN  /\ runid2num = idx.runid2num
           /\ runnum2id = idx.runnum2id
           /\ runmin = idx.runmin
           /\ runmax = idx.runmax
    /\ numRuns = Len(wrows)
    /\ \E repType \in {"Summary", "History"}, runnum \in {None, Some(0)},
          taskStatus \in StatusArgs :
          /\ call = Some([repType |-> repType, runnum |-> runnum, taskID |-> None,
                          taskName |-> None, taskStatus |-> taskStatus])
          /\ \E rows \in FetchedRows(repType) :
                 tRowz = [i \in DOMAIN rows |->
                             FetchedRow(i, rows[i].rid, rows[i].tid, rows[i].st,
                                        rows[i].hn)]
    /\ task = {}
    /\ try = {}
    /\ status = {}
    /\ taskLimit \in 0..1
    /\ nodeUsage = EmptyDict
    /\ nRunning = 0
    /\ usageOut = None
    /\ nCalls = 0
    /\ plotTally = None
    /\ IdleSession
    /\ pTasks = << >>
    /\ taskStats = EmptyDict
    /\ statTotals = EmptyDict
    /\ nTasks = 0
    /\ nTaskTypes = 0
    /\ tIdx = 0
    /\ pTasksFilled = FALSE
    /\ IdleMain

NextFill ==
    \/ FillTasks
    \/ CallAgain
    \/ FillMatrix
    \/ MatrixBegin
    \/ TallyRow
    \/ MatrixRender

SpecFill == InitFill /\ [][NextFill]_vars

(***************************************************************************)
(* Repeated calls of getTaskData("Summary", ...) on one instance of wstat   *)
(* over an unchanged database, followed by printStatusMatrix.              *)
(***************************************************************************)
InitCalls ==
    /\ prog = "wstat"
    /\ pc = "fetched"
    /\ workflow = FillWorkflow
    /\ views = {}
    /\ wrows = OrderByTimeBegan(workflow)
    /\ LET idx == IndexRows(prog, wrows, 1, EmptyIndex)
       IN  /\ runid2num = idx.runid2num
           /\ runnum2id = idx.runnum2id
           /\ runmin = idx.runmin
           /\ runmax = idx.runmax
    /\ numRuns = Len(wrows)
    /\ \E runnum \in {None, Some(0)}, taskStatus \in StatusArgs :
          /\ call = Some([repType |-> "Summary", runnum |-> runnum, taskID |-> None,
                          taskName |-> None, taskStatus |-> taskStatus])
          /\ \E rows \in FetchedRows("Summary") :
                 tRowz = [i \in DOMAIN rows |->
                             FetchedRow(i, rows[i].rid, rows[i].tid, rows[i].st,
                                        rows[i].hn)]
    /\ task = {}
    /\ try = {}
    /\ status = {}
    /\ taskLimit \in 0..1
    /\ nodeUsage = EmptyDict
    /\ nRunning = 0
    /\ usageOut = None
    /\ nCalls = 0
    /\ plotTally = None
    /\ IdleSession
    /\ pTasks = << >>
    /\ taskStats = EmptyDict
    /\ statTotals = EmptyDict
    /\ nTasks = 0
    /\ nTaskTypes = 0
    /\ tIdx = 0
    /\ pTasksFilled = FALSE
    /\ IdleMain

NextCalls ==
    \/ FillTasks
    \/ CallAgain
    \/ FillMatrix
    \/ MatrixBegin
    \/ TallyRow
    \/ MatrixRender

SpecCalls == InitCalls /\ [][NextCalls]_vars

(***************************************************************************)
(* The durations of an attempt.  Version 1 computes the run time of a      *)
(* fetched row with timeDiff; version 2 has the database compute waitTime  *)
(* and runTime in the select list (stdVariables).  A time is a number of   *)
(* ticks of the model's clock, two to the second.                          *)
(***************************************************************************)
DaySeconds == 86400

\* SQL: time((julianday(b) - julianday(a)) * 86400, 'unixepoch'): NULL when
\* a or b is NULL, else the seconds from a to b as a time of day
SqlTimeBetween(a, b) ==
    IF a = None \/ b = None THEN None
    ELSE Some(((b[1] - a[1]) \div 2) % DaySeconds)

\* the columns launched, start, waitTime, ended, runTime of stdVariables
StdVariablesTimes(row) ==
    [task_id |-> row.task_id, function |-> row.task_func_name,
     status |-> row.task_status_name, try_id |-> row.try_id,
     hostname |-> row.hostname,
     launched |-> stripms(row.task_try_time_launched),
     start |-> stripms(row.task_try_time_running),
     waitTime |-> SqlTimeBetween(row.task_try_time_launched,
                                 row.task_try_time_running),
     ended |-> stripms(row.task_try_time_returned),
     runTime |-> SqlTimeBetween(row.task_try_time_running,
                                row.task_try_time_returned)]

\* version 2: the rows of a task query as the database returns them
LoadTimes ==
    /\ pc = "fetched"
    /\ prog = "wstat2"
    /\ pTasks' = [i \in DOMAIN tRowz |-> StdVariablesTimes(tRowz[i])]
    /\ pTasksFilled' = TRUE
    /\ nCalls' = nCalls + 1
    /\ pc' = "filled"
    /\ UNCHANGED <<prog, taskStats, statTotals, nTasks, nTaskTypes, tIdx, dbVars,
                   indexVars, args, viewsUpdated, todo, queries, out, checked,
                   selected, queryVars, nodeUsage, nRunning, taskLimit, usageOut,
                   plotTally, sessionVars>>

TimeValues == {None} \cup {Some(t) : t \in 0..MaxTime}

\* one attempt of one task, with any of its three times missing
InitDuration ==
    /\ prog \in Programs
    /\ pc = "fetched"
    /\ workflow = FillWorkflow
    /\ views = {}
    /\ wrows = OrderByTimeBegan(workflow)
    /\ LET idx == IndexRows("wstat", wrows, 1, EmptyIndex)
       IN  /\ runid2num = idx.runid2num
           /\ runnum2id = idx.runnum2id
           /\ runmin = idx.runmin
           /\ runmax = idx.runmax
    /\ numRuns = Len(wrows)
    /\ call = Some([repType |-> "Summary", runnum |-> None, taskID |-> None,
                    taskName |-> None, taskStatus |-> None])
    /\ \E st \in {"running", "exec_done"}, l \in TimeValues, r \in TimeValues,
          e \in TimeValues :
          tRowz = <<[FetchedRow(1, "run-a", 0, st, None) EXCEPT
                        !.task_try_time_launched = l,
                        !.task_try_time_running = r,
                        !.task_try_time_returned = e]>>
    /\ task = {}
    /\ try = {}
    /\ status = {}
    /\ taskLimit = 0
    /\ nodeUsage = EmptyDict
    /\ nRunning = 0
    /\ usageOut = None
    /\ nCalls = 0
    /\ plotTally = None
    /\ IdleSession
    /\ pTasks = << >>
    /\ taskStats = EmptyDict
    /\ statTotals = EmptyDict
    /\ nTasks = 0
    /\ nTaskTypes = 0
    /\ tIdx = 0
    /\ pTasksFilled = FALSE
    /\ IdleMain

NextDuration == FillTasks \/ LoadTimes

SpecDuration == InitDuration /\ [][NextDuration]_vars

(***************************************************************************)
(* plotStats (version 1): the tally of the run times of the done tasks,    *)
(* with its report of the done tasks that have no run time.  The reports   *)
(* taskSummary and plot are followed from the rows getTaskData fetched to  *)
(* their end; todo holds the calls the report makes after the status       *)
(* matrix.                                                                 *)
(***************************************************************************)
MaxErrorLines == 10

\* "for task in self.pTasks": one pass of the loop, on the tally t
PlotTask(t, row) ==
    LET seen == [t EXCEPT !.nTasks = @ + 1]
    IN  IF ~PyIn("done", row.status) THEN seen
        ELSE IF row.runTime = None
        THEN [seen EXCEPT !.nDone = @ + 1, !.nErrors = @ + 1,
                 !.lines = IF t.nErrors + 1 < MaxErrorLines
                           THEN Append(@, "%ERROR: Completed task has no runtime")
                           ELSE IF t.nErrors + 1 = MaxErrorLines
                           THEN Append(@, "%ERROR: Too many tasks with no runtime")
                           ELSE @]
        ELSE IF row.task_name \notin DOMAIN t.histData
        THEN [seen EXCEPT !.nDone = @ + 1, !.nTaskTypes = @ + 1,
                 !.histData = DictSet(@, row.task_name, <<row.runTime[1]>>)]
        ELSE [seen EXCEPT !.nDone = @ + 1,
                 !.histData[row.task_name] = Append(@, row.runTime[1])]

\* plotStats entered, with pTasks filled
PlotBegin ==
    /\ pc = "report"
    /\ todo # << >>
    /\ Head(todo).op = "plotStats"
    /\ pTasksFilled
    /\ IF Len(pTasks) < 1
       THEN /\ out' = out \o <<"Nothing to plot">>
            /\ todo' = Tail(todo)
            /\ UNCHANGED <<pc, plotTally>>
       ELSE /\ out' = out \o <<"There are tasks in pTasks">>
            /\ plotTally' = Some([nTasks |-> 0, nTaskTypes |-> 0, nDone |-> 0,
                                  nErrors |-> 0, histData |-> EmptyDict,
                                  lines |-> << >>, idx |-> 1])
            /\ pc' = "plot"
            /\ UNCHANGED todo
    /\ UNCHANGED <<prog, matrixVars, dbVars, indexVars, args, viewsUpdated,
                   pTasksFilled, queries, checked, selected, queryVars,
                   nodeUsage, nRunning, taskLimit, usageOut, nCalls, sessionVars>>

\* one pass of the loop over self.pTasks
PlotRow ==
    /\ pc = "plot"
    /\ plotTally[1].idx <= Len(pTasks)
    /\ LET t == PlotTask(plotTally[1], pTasks[plotTally[1].idx])
       IN  /\ plotTally' = Some([t EXCEPT !.idx = @ + 1, !.lines = << >>])
           /\ out' = out \o t.lines
    /\ UNCHANGED <<prog, pc, matrixVars, dbVars, indexVars, args, viewsUpdated,
                   pTasksFilled, todo, queries, checked, selected, queryVars,
                   nodeUsage, nRunning, taskLimit, usageOut, nCalls, sessionVars>>

\* the totals, the histograms, return
PlotEnd ==
    /\ pc = "plot"
    /\ plotTally[1].idx > Len(pTasks)
    /\ out' = out \o <<"Total tasks">>
                  \o [i \in 1..Cardinality(DOMAIN plotTally[1].histData) |->
                         "Histogramming data for task"]
    /\ todo' = Tail(todo)
    /\ pc' = "report"
    /\ UNCHANGED <<prog, matrixVars, dbVars, indexVars, args, viewsUpdated,
                   pTasksFilled, queries, checked, selected, queryVars, fillVars, sessionVars>>

\* the tasks of the plot specification: exec_done with its times ("ok"),
\* exec_done without a returned time ("lost"), memo_done without a returned
\* time ("memo") and running ("run")
RowKinds == {"ok", "lost", "memo", "run"}

PlotFetchedRow(i, kind) ==
    [FetchedRow(i, "run-a", 0,
                CASE kind = "run" -> "running"
                  [] kind = "memo" -> "memo_done"
                  [] OTHER -> "exec_done",
                None)
        EXCEPT !.task_id = i - 1,
               !.task_try_time_returned = IF kind = "ok" THEN Some(4) ELSE None]

\* getTaskData has fetched the rows of a Summary: up to MaxMixed tasks of any
\* kind, then up to MaxLost done tasks that have no returned time
InitPlot ==
    /\ prog = "wstat"
    /\ pc = "fetched"
    /\ workflow = FillWorkflow
    /\ views = {}
    /\ wrows = OrderByTimeBegan(workflow)
    /\ LET idx == IndexRows(prog, wrows, 1, EmptyIndex)
       IN  /\ runid2num = idx.runid2num
           /\ runnum2id = idx.runnum2id
           /\ runmin = idx.runmin
           /\ runmax = idx.runmax
    /\ numRuns = Len(wrows)
    /\ call = Some([repType |-> "Summary", runnum |-> None, taskID |-> None,
                    taskName |-> None, taskStatus |-> None])
    /\ \E mixed \in SeqsUpTo(RowKinds, MaxMixed), lost \in 0..MaxLost :
          tRowz = [i \in 1..(Len(mixed) + lost) |->
                      PlotFetchedRow(i, IF i <= Len(mixed) THEN mixed[i] ELSE "lost")]
    /\ task = {}
    /\ try = {}
    /\ status = {}
    /\ taskLimit = 0
    /\ nodeUsage = EmptyDict
    /\ nRunning = 0
    /\ usageOut = None
    /\ nCalls = 0
    /\ plotTally = None
    /\ IdleSession
    /\ pTasks = << >>
    /\ taskStats = EmptyDict
    /\ statTotals = EmptyDict
    /\ nTasks = 0
    /\ nTaskTypes = 0
    /\ tIdx = 0
    /\ pTasksFilled = FALSE
    /\ args = None
    /\ viewsUpdated = FALSE
    /\ todo \in {<< >>, <<Call("plotStats", None, FALSE)>>}
    /\ queries = << >>
    /\ out = << >>
    /\ checked = TRUE
    /\ selected = None

NextPlot ==
    \/ FillTasks
    \/ FillMatrix
    \/ MatrixBegin
    \/ TallyRow
    \/ MatrixRender
    \/ MatrixReturn
    \/ PlotBegin
    \/ PlotRow
    \/ PlotEnd

SpecPlot == InitPlot /\ [][NextPlot]_vars

(***************************************************************************)
(* The status matrix: claims.                                              *)
(***************************************************************************)
States == Range(statList(prog))

\* the rows of the rendered matrix that stand for a task type
TypeRows == DOMAIN taskStats \ {"TOTAL"}

CellSum == SumOver([n \in TypeRows |-> SumOver(taskStats[n], States)], TypeRows)

ColumnSum(s) == SumOver([n \in TypeRows |-> taskStats[n][s]], TypeRows)

\* C1: once the matrix is rendered, the sum of all per-task-type, per-state
\* cells equals the TOTAL row's TOTAL cell, and both equal the number of rows
\* tallied.  (Violated: a task type named TOTAL loses its row to the TOTAL row.)
C1_CellSumIsGrandTotalIsRowCount ==
    pc = "rendered" =>
        /\ CellSum = taskStats["TOTAL"]["TOTAL"]
        /\ taskStats["TOTAL"]["TOTAL"] = Len(pTasks)

C3_TotalRowIsColumnSum ==
    pc = "rendered" =>
        /\ \A s \in States : taskStats["TOTAL"][s] = ColumnSum(s)
        /\ taskStats["TOTAL"]["TOTAL"] = Len(pTasks)

\* C4: a row whose status is not a key of statTemplate never ends the tally
\* (no KeyError), and in the rendered matrix every such row is counted in the
\* 'unknown' column.  (Violated: the increment raises KeyError.)
C4_UnknownStatusCountedNotFatal ==
    /\ pc # "KeyError"
    /\ pc = "rendered" =>
          taskStats["TOTAL"]["unknown"] =
              Cardinality({i \in DOMAIN pTasks :
                              pTasks[i].status \notin DOMAIN statTemplate(prog)})

(***************************************************************************)
(* The run index and the main program: claims.                             *)
(***************************************************************************)
Exceptions == {"KeyError", "IndexError", "AssertionError"}

\* the run number of a loaded row
RunNumber(row) == PyInt(prog, RowRunNum(prog, row))

SetMin(S) == CHOOSE x \in S : \A y \in S : x <= y
SetMax(S) == CHOOSE x \in S : \A y \in S : x >= y

\* the requested run number lies outside [runmin, runmax]
OutsideRange == args.runnum # None /\ ~(runmin <= args.runnum[1] /\ args.runnum[1] <= runmax)

TaskLevelQueries ==
    {i \in DOMAIN queries :
        queries[i].kind = "select" /\ queries[i].on \cap TaskLevelSources # {}}

\* the next step of the report looks a run up
WillLookup ==
    /\ pc = "report"
    /\ todo # << >>
    /\ \/ Head1.op \in {"printWorkflowSummary", "getTaskData"}
       \/ Head1.op = "printStatusMatrix" /\ prog = "wstat" /\ ~pTasksFilled

C7_ResolveNoneIsRunMax ==
    [][(WillLookup /\ Head1.runnum = None) =>
          /\ pc' \notin Exceptions
          /\ selected' # None
          /\ RunNumber(selected'[1]) = runmax]_vars

\* C8 as stated: an invocation that requests a run number outside
\* [runmin, runmax] ends with the run number error and exit status 1, whatever
\* the report type and the other options.  (Violated with --schemas and
\* --updateViews, which exit with status 0 before the check.)
C8_OutOfRangeAlwaysFails ==
    (pc \notin {"main", "constructed"} /\ OutsideRange) =>
        /\ pc = "exit1"
        /\ out # << >>
        /\ out[Len(out)] = "ERROR: run number out of range"

\* C8 amended: unless --schemas or (version 2) --updateViews is given, an
\* invocation that requests a run number outside [runmin, runmax] ends with the
\* run number error and exit status 1, for every report type, valid or not,
\* and also when no run is loaded; the check is the only step it can take
\* after construction.
C8_OutOfRangeFailsUnlessSchemasOrUpdate ==
    (pc # "main" /\ OutsideRange /\ ~args.schemas /\ ~args.updateViews) =>
        IF pc = "constructed"
        THEN ENABLED MainCheckRun /\ ~ENABLED MainSchemas /\ ~ENABLED MainUpdateViews
        ELSE /\ pc = "exit1"
             /\ out[Len(out)] = "ERROR: run number out of range"
             /\ todo = << >>
             /\ selected = None

\* C8 witness: version 2 has refused run number 0 with two runs loaded.
C8_Witness ==
    /\ pc = "exit1"
    /\ prog = "wstat2"
    /\ args.runnum = Some(0)
    /\ numRuns = 2
    /\ args.reportType = "recentStatus"
    /\ out[Len(out)] = "ERROR: run number out of range"

\* C9: a lookup of a run number n with runmin <= n <= runmax never fails and
\* returns a run whose number is n.  (Violated by version 1 when no rundir
\* carries the number n: the lookup raises KeyError.)
C9_ResolveInsideRange ==
    [][(WillLookup /\ Head1.runnum # None
            /\ runmin <= Head1.runnum[1] /\ Head1.runnum[1] <= runmax) =>
          /\ pc' \notin Exceptions
          /\ selected' # None
          /\ RunNumber(selected'[1]) = Head1.runnum[1]]_vars

\* C10: every query of task-level data (the task, try and status tables, the
\* summary and task views) is issued after the run number check was passed,
\* and none is issued in an invocation whose requested run number is outside
\* [runmin, runmax].
C10_NoTaskQueryBeforeRunCheck ==
    TaskLevelQueries # {} => checked /\ ~OutsideRange

\* C10 witness: an invocation with an out-of-range run number has ended, its
\* only query the one of the run table.
C10_Witness ==
    /\ pc = "exit1"
    /\ OutsideRange
    /\ prog = "wstat"
    /\ queries = <<Select({"workflow"})>>
    /\ args.reportType = "plot"

(***************************************************************************)
(* The Summary-mode query: claims.                                         *)
(***************************************************************************)
\* the tasks the call asks for: those of the task table that pass the
\* taskID and taskName arguments and have a status event of an attempt
AskedTasks ==
    {t \in task :
        /\ call[1].taskID # None => t.task_id = call[1].taskID[1]
        /\ call[1].taskName # None => t.task_func_name = call[1].taskName[1]
        /\ \E y \in try, s \in status :
              /\ y.run_id = t.run_id /\ y.task_id = t.task_id
              /\ s.run_id = t.run_id /\ s.task_id = t.task_id
              /\ s.try_id = y.try_id}

\* the attempts of the task of run r with id i, and its most recent one
AttemptsOf(r, i) == {y.try_id : y \in {z \in try : z.run_id = r /\ z.task_id = i}}
MostRecentAttempt(r, i) == CHOOSE y \in AttemptsOf(r, i) : \A z \in AttemptsOf(r, i) : z <= y

\* the status events of the most recent attempt of that task, and the states
\* of those with the maximum timestamp
LatestEvents(r, i) ==
    {s \in status : /\ s.run_id = r /\ s.task_id = i
                    /\ s.try_id = MostRecentAttempt(r, i)}
LatestStates(r, i) ==
    {s.task_status_name : s \in {e \in LatestEvents(r, i) :
        \A k \in LatestEvents(r, i) : k.timestamp <= e.timestamp}}

\* C5: the rows the Summary-mode query returned are exactly one row per
\* distinct task (run and task id) the call asks for, and each row's status
\* is the state of a maximum-timestamp status event of that task's most
\* recent attempt, whenever that attempt has a status event.  (Violated:
\* the query groups by task_id alone, over all runs and all attempts.)
C5_OneRowPerTaskWithLatestAttemptState ==
    pc = "fetched" =>
        /\ Len(tRowz) = Cardinality(AskedTasks)
        /\ \A t \in AskedTasks :
              \E i \in DOMAIN tRowz :
                  tRowz[i].run_id = t.run_id /\ tRowz[i].task_id = t.task_id
        /\ \A i \in DOMAIN tRowz :
              LatestEvents(tRowz[i].run_id, tRowz[i].task_id) # {} =>
                  tRowz[i].task_status_name
                      \in LatestStates(tRowz[i].run_id, tRowz[i].task_id)

SelectedEvents ==
    {s \in status :
        /\ \E t \in task : t.run_id = s.run_id /\ t.task_id = s.task_id
        /\ call[1].taskID # None => s.task_id = call[1].taskID[1]}

\* C13, for version 1: a History-mode query returns exactly one row per
\* status event of the selected tasks, also for events whose try row is
\* missing.  (Violated: the inner join with try drops the events that have no
\* try row.)
C13_HistoryOneRowPerStatusEvent ==
    (prog = "wstat" /\ pc = "fetched" /\ call[1].repType = "History") =>
        /\ Len(tRowz) = Cardinality(SelectedEvents)
        /\ \A s \in SelectedEvents :
              \E i \in DOMAIN tRowz :
                  /\ tRowz[i].run_id = s.run_id
                  /\ tRowz[i].task_id = s.task_id
                  /\ tRowz[i].try_id = s.try_id
                  /\ tRowz[i].timestamp = s.timestamp
                  /\ tRowz[i].task_status_name = s.task_status_name

(***************************************************************************)
(* The status filter and the node usage of getTaskData: claims.            *)
(***************************************************************************)
\* the call's status filter is a literal state name, not a preset
LiteralFilter ==
    /\ call[1].taskStatus # None
    /\ call[1].taskStatus[1] \notin DOMAIN statPresets(prog)

\* the rows of tRowz with the given status, in order
RECURSIVE RowsWhere(_, _)
RowsWhere(rows, sts) ==
    IF rows = << >> THEN << >>
    ELSE IF Head(rows).task_status_name \in sts
         THEN <<Head(rows)>> \o RowsWhere(Tail(rows), sts)
         ELSE RowsWhere(Tail(rows), sts)

\* C14: with a literal state name as status filter, the first call of
\* getTaskData keeps exactly the rows whose status equals that name.
\* (Violated: version 1 keeps a row when the literal occurs anywhere in the
\* row's status.)
C14_LiteralFilterIsExactMatch ==
    (pc = "filled" /\ nCalls = 1 /\ taskLimit = 0 /\ LiteralFilter) =>
        /\ Len(pTasks) = Len(RowsWhere(tRowz, {call[1].taskStatus[1]}))
        /\ \A i \in DOMAIN pTasks : pTasks[i].status = call[1].taskStatus[1]

\* the state sets the presets stand for
PresetStates ==
    [notdone |-> {"pending", "launched", "running"},
     runz    |-> {"running", "joining", "running_ended", "exec_done", "memo_done",
                  "failed", "dep_fail", "fail_retryable"},
     dead    |-> {"exec_done", "memo_done", "failed", "dep_fail", "fail_retryable"},
     oddball |-> {"unsched", "unknown"}]

\* C15: with a preset name as status filter, the first call of getTaskData
\* keeps exactly the rows whose status is a member of the preset's state set
\* (runz includes joining and running_ended).  (Violated: version 1's runz
\* lacks joining and running_ended.)
C15_PresetFilterIsMembership ==
    (pc = "filled" /\ nCalls = 1 /\ taskLimit = 0 /\ call[1].taskStatus # None
        /\ call[1].taskStatus[1] \in DOMAIN PresetStates) =>
        /\ Len(pTasks) = Len(RowsWhere(tRowz, PresetStates[call[1].taskStatus[1]]))
        /\ \A i \in DOMAIN pTasks :
              pTasks[i].status \in PresetStates[call[1].taskStatus[1]]

(***************************************************************************)
(* The filters of the two modes: claims.                                   *)
(***************************************************************************)
\* C16, the task-type name filter in History mode, version 1: every supplied
\* filter is applied in both modes, so a History-mode query called with a
\* task-type name returns only rows of tasks of that name, as a Summary-mode
\* query does.  (Violated: the History-mode where clause is built from the
\* task id alone.)
C16_HistoryAppliesTaskNameFilter ==
    (prog = "wstat" /\ pc = "fetched" /\ call[1].repType = "History"
        /\ call[1].taskName # None) =>
        \A i \in DOMAIN tRowz : tRowz[i].task_func_name = call[1].taskName[1]

\* the key a host is counted under
HostKey(hn) == IF hn = None THEN "unknown" ELSE hn[1]

\* the rows of tRowz that show a task's current status: the last row of each
\* task (a Summary has one row per task, a History one per status event)
CurrentRows ==
    {i \in DOMAIN tRowz :
        ~\E j \in DOMAIN tRowz :
            /\ j > i
            /\ tRowz[j].run_id = tRowz[i].run_id
            /\ tRowz[j].task_id = tRowz[i].task_id}

\* the tasks whose current status is running, on the host counted under h
RunningOn(h) ==
    {i \in CurrentRows :
        /\ tRowz[i].task_status_name = "running"
        /\ HostKey(tRowz[i].hostname) = h}

\* C17: after the first, unfiltered call of getTaskData, nodeUsage holds for
\* each host the number of tasks whose current status is running, one per
\* task, with the tasks that have no host under the key 'unknown'.
\* (Violated: in History mode every 'running' status event is counted,
\* whatever the task's current status.)
C17_NodeUsageCountsRunningTasks ==
    (pc = "filled" /\ nCalls = 1 /\ taskLimit = 0 /\ call[1].taskStatus = None) =>
        \A h \in {HostKey(hn) : hn \in Hosts} :
            IF RunningOn(h) = {} THEN h \notin DOMAIN nodeUsage
            ELSE h \in DOMAIN nodeUsage /\ nodeUsage[h] = Cardinality(RunningOn(h))

\* C18: a node usage summary that a call of getTaskData prints, the first or
\* a later one, reports a number of running tasks equal to the sum of the
\* per-host counts it lists, and a number of active nodes equal to the number
\* of hosts it lists.  (Violated from the second call on: the per-host counts
\* go on from those of the calls before, the number of running tasks starts
\* at 0.)
C18_UsageSummaryTotalsAgree ==
    (pc = "filled" /\ usageOut # None) =>
        /\ usageOut[1].running
              = SumOver(usageOut[1].nodes, DOMAIN usageOut[1].nodes)
        /\ usageOut[1].active = Cardinality(DOMAIN usageOut[1].nodes)

(***************************************************************************)
(* The status matrix of a requested run: claims.                           *)
(***************************************************************************)
\* the fetched rows that belong to the run the call asked for
RowsOfRequestedRun ==
    {i \in DOMAIN tRowz : tRowz[i].run_id = runnum2id[call[1].runnum[1]]}

\* C11: a status matrix printed for a requested run, from an unfiltered
\* Summary-mode call, counts the rows of that run only: its grand total is the
\* number of that run's rows.  (Violated: no query of getTaskData selects by
\* run, the rows of every run are tallied.)
C11_MatrixOfRequestedRunOnly ==
    (pc = "rendered" /\ nCalls = 1 /\ taskLimit = 0
        /\ call[1].repType = "Summary" /\ call[1].taskStatus = None
        /\ call[1].runnum # None) =>
        statTotals["TOTAL"] = Cardinality(RowsOfRequestedRun)

(***************************************************************************)
(* The durations of an attempt: claims.                                    *)
(***************************************************************************)
\* the duration d shown for the endpoints a and b is absent exactly when an
\* endpoint is absent
AbsentIffEndpointAbsent(d, a, b) == (d = None) <=> (a = None \/ b = None)

\* C19: the task rows are shaped without an exception, and a row's run time
\* (returned minus running) and, where it is computed, its wait time
\* (running minus launched) is absent if and only if one of its two endpoints
\* is absent in the attempt; a missing endpoint never gives a zero duration.
C19_DurationAbsentIffEndpointAbsent ==
    /\ pc \in {"fetched", "filled"}
    /\ pc = "filled" =>
          \A i \in DOMAIN pTasks :
              /\ AbsentIffEndpointAbsent(pTasks[i].runTime,
                                         tRowz[i].task_try_time_running,
                                         tRowz[i].task_try_time_returned)
              /\ prog = "wstat2" =>
                    AbsentIffEndpointAbsent(pTasks[i].waitTime,
                                            tRowz[i].task_try_time_launched,
                                            tRowz[i].task_try_time_running)

\* C19 witness: version 1 shaped the row of an attempt that has started and
\* not returned, and its run time is absent.
C19_Witness ==
    /\ pc = "filled"
    /\ prog = "wstat"
    /\ Len(pTasks) = 1
    /\ tRowz[1].task_try_time_running # None
    /\ tRowz[1].task_try_time_returned = None
    /\ pTasks[1].startTime # None
    /\ pTasks[1].runTime = None

(***************************************************************************)
(* The done tasks that have no run time: claims.                           *)
(***************************************************************************)
\* the rows of pTasks of done tasks (exec_done, memo_done) with no run time
DoneWithoutRunTime ==
    {i \in DOMAIN pTasks :
        /\ pTasks[i].status \in {"exec_done", "memo_done"}
        /\ pTasks[i].runTime = None}

\* the lines printed so far that report a done task with no run time
MissingDurationLines ==
    {i \in DOMAIN out : out[i] \in {"%ERROR: Completed task has no runtime",
                                    "%ERROR: Too many tasks with no runtime"}}

\* C20: a report never stops on an exception, and when it has made its last
\* call and pTasks holds done tasks with no run time, it has printed a
\* warning about them, in at most 10 lines.  (Violated: taskSummary prints
\* the task table and the status matrix and no such warning; only plotStats
\* prints it.)
C20_MissingDurationWarned ==
    /\ pc \notin Exceptions
    /\ (pc = "report" /\ todo = << >> /\ DoneWithoutRunTime # {}) =>
          /\ MissingDurationLines # {}
          /\ Cardinality(MissingDurationLines) <= 10

(***************************************************************************)
(* The state vocabulary in the tally: claims.                              *)
(***************************************************************************)
\* the fixed vocabulary of task states
Vocabulary ==
    {"pending", "launched", "running", "joining", "running_ended", "unsched",
     "unknown", "exec_done", "memo_done", "failed", "dep_fail", "fail_retryable"}

\* C25: a row that carries a state of the fixed vocabulary is tallied without
\* error: the tally never stops with KeyError at such a row.  (Violated:
\* version 1's statList has no running_ended.)
C25_VocabularyStatesTallied ==
    pc = "KeyError" => pTasks[tIdx].status \notin Vocabulary

(***************************************************************************)
(* The run index as a two-way lookup: claims.                              *)
(***************************************************************************)
\* C26: once the index is built, looking up the number of a loaded run and
\* then the run of that number gives the run back, and runid2num and
\* runnum2id have one entry per loaded run, numRuns each.  (Violated by
\* version 1 when two runs have rundirs of one basename: the later run takes
\* the number's entry in runnum2id.)
C26_RunIndexTwoWay ==
    pc # "main" =>
        /\ \A i \in 1..Len(wrows) :
              /\ wrows[i].run_id \in DOMAIN runid2num
              /\ PyInt(prog, runid2num[wrows[i].run_id]) \in DOMAIN runnum2id
              /\ runnum2id[PyInt(prog, runid2num[wrows[i].run_id])] = wrows[i].run_id
        /\ Cardinality(DOMAIN runid2num) = numRuns
        /\ Cardinality(DOMAIN runnum2id) = numRuns

(***************************************************************************)
(* The instance's state over several calls of getTaskData: claims.         *)
(***************************************************************************)
\* the rows of pTasks whose status is running
RunningRows == {i \in DOMAIN pTasks : pTasks[i].status = "running"}

\* C27: after any number of getTaskData calls on the instance, with any
\* report type, status filter and task limit, the values of nodeUsage add up
\* to the number of rows of pTasks whose status is running, and each value is
\* at least 1.
C27_NodeUsageSumIsRunningRows ==
    /\ SumOver(nodeUsage, DOMAIN nodeUsage) = Cardinality(RunningRows)
    /\ \A h \in DOMAIN nodeUsage : nodeUsage[h] >= 1

\* C27 witness: two calls have counted the same running task, which has no
\* host, once each, and a running task on node07.
C27_Witness ==
    /\ pc = "filled"
    /\ nCalls = 2
    /\ DOMAIN nodeUsage = {"unknown", "node07"}
    /\ nodeUsage["unknown"] = 2
    /\ nodeUsage["node07"] = 2
    /\ Len(pTasks) = 4

\* the rows one call of getTaskData keeps of the fetched rows
KeptByOneCall ==
    FillLoop(prog, tRowz, 1, call[1].taskStatus, taskLimit, runid2num,
             [grCount |-> 0, nRunning |-> 0, nodeUsage |-> EmptyDict,
              pTasks |-> << >>]).pTasks

\* n copies of a list, one after the other
RECURSIVE Repeated(_, _)
Repeated(rows, n) == IF n = 0 THEN << >> ELSE Repeated(rows, n - 1) \o rows

\* C28: getTaskData never clears pTasks: after n identical calls pTasks is
\* the rows kept by one call, n times over in call order, so its length never
\* decreases, and the matrix computed after two calls tallies twice the rows
\* of one call.
C28_PTasksAccumulates ==
    /\ pTasks = Repeated(KeptByOneCall, nCalls)
    /\ pc = "rendered" => nTasks = nCalls * Len(KeptByOneCall)

\* C28 witness: the matrix is rendered after two calls that kept two rows each.
C28_Witness ==
    /\ pc = "rendered"
    /\ nCalls = 2
    /\ Len(KeptByOneCall) = 2
    /\ nTasks = 4

(***************************************************************************)
(* View provisioning and the log tables: claims.                           *)
(***************************************************************************)
\* the positions in queries of the statements that create the views
CreatePositions == {i \in DOMAIN queries : queries[i].kind = "create view"}

\* the positions in queries of the loading of the run table through runview
LoadPositions == {i \in DOMAIN queries : queries[i] = Select({"workflow", "runview"})}

\* the constructor found views missing and said so
ProvisionedInConstructor == "WARNING: views missing" \in Range(out)

\* C30: an invocation of wstat2 runs storeViews at most once, whatever views
\* are missing and whether or not --updateViews is given, and a storeViews
\* run by the constructor is complete before the run table is loaded through
\* runview.
C30_ProvisionedAtMostOnce ==
    prog = "wstat2" =>
        /\ Cardinality(CreatePositions) <= 1
        /\ viewsUpdated <=> CreatePositions # {}
        /\ ProvisionedInConstructor =>
              \A i \in CreatePositions, j \in LoadPositions : i < j

\* C30 witness: --updateViews given with views missing: the constructor has
\* provisioned, then loaded the run table, and main has exited without
\* provisioning again.
C30_Witness ==
    /\ prog = "wstat2"
    /\ pc = "exit0"
    /\ args.updateViews
    /\ ProvisionedInConstructor
    /\ Cardinality(CreatePositions) = 1
    /\ LoadPositions # {}

\* the statements a step adds to queries
NewStatements == {queries'[i] : i \in DOMAIN queries' \ DOMAIN queries}

\* C22: no step of either program changes a row of the log tables (the
\* workflow, task, try and status tables); the only statements that are not
\* selects are the dropping and the creation of views of viewList by
\* storeViews, and no other view of the database is dropped or created.
C22_LogIsReadOnly ==
    [][/\ workflow' = workflow
       /\ task' = task
       /\ try' = try
       /\ status' = status
       /\ views' \ Range(viewList) = views \ Range(viewList)
       /\ views' # views => viewsUpdated'
       /\ \A q \in NewStatements :
             q.kind # "select" =>
                 /\ q.kind \in {"drop view", "create view"}
                 /\ q.on \subseteq Range(viewList)
                 /\ viewsUpdated']_vars

\* C22 witness: version 2 has provisioned a database that held two of its
\* views and a view of the user: the two were dropped, the user's view is
\* still there, the workflow table is as it was loaded.
C22_Witness ==
    /\ prog = "wstat2"
    /\ pc = "exit0"
    /\ Ddl("drop view", {"runview", "taskview"}) \in Range(queries)
    /\ views = Range(viewList) \cup {"userview"}
    /\ Len(wrows) = Cardinality(workflow)
    /\ workflow # {}

\* the positions in queries of the selects that read a view of viewList
ViewReads ==
    {i \in DOMAIN queries :
        queries[i].kind = "select" /\ queries[i].on \cap Range(viewList) # {}}

\* the positions in queries of the statements that drop views
DropPositions == {i \in DOMAIN queries : queries[i].kind = "drop view"}

\* C23: version 2 looks for its views (a select on sqlite_master) before any
\* query that reads one of them; if one is missing it first drops those it
\* finds and creates them all, and only then reads them; once constructed,
\* every view of viewList is in the database, so that the next invocation
\* finds them present.
C23_ViewsDecidedBeforeQueries ==
    (prog = "wstat2" /\ pc # "main") =>
        /\ queries[1] = Select({"sqlite_master"})
        /\ Range(viewList) \subseteq views
        /\ ProvisionedInConstructor =>
              /\ CreatePositions # {}
              /\ \A c \in CreatePositions :
                    /\ \A d \in DropPositions : d < c
                    /\ \A i \in ViewReads : c < i
        /\ (~ProvisionedInConstructor /\ ViewReads # {}) =>
              \A c \in CreatePositions : \A i \in ViewReads : i < c

\* C23 witness: version 2 found two of its views, dropped them, created all
\* of them, loaded the run table through runview and has read the summary
\* view for a report.
C23_Witness ==
    /\ prog = "wstat2"
    /\ ProvisionedInConstructor
    /\ DropPositions # {}
    /\ \E i \in ViewReads : "summary" \in queries[i].on
    /\ pc = "exit0"

(***************************************************************************)
(* Fatal input errors: claims.                                             *)
(***************************************************************************)
\* the report type is none of the program's, or the run number is out of range
BadInput == args.reportType \notin reportTypes(prog) \/ OutsideRange

\* main is past its tests of the input
PastInputTests == pc \notin {"main", "constructed", "dispatch"}

\* the lines that are no part of a report
NoReportLines ==
    {"WARNING: views missing", "schemas", "ERROR: run number out of range",
     "ERROR: Unrecognized reportType"}

\* C24 as stated: an invocation with an unrecognized report type or an
\* out-of-range run number ends with exit status 1 and without any report
\* output, for every combination of the other options.  (Violated with
\* --schemas and --updateViews, which exit with status 0 before the tests.)
C24_BadInputAlwaysFatal ==
    (PastInputTests /\ BadInput) =>
        /\ pc = "exit1"
        /\ Range(out) \subseteq NoReportLines \ {"schemas"}

\* C24 amended: an invocation with an unrecognized report type or an
\* out-of-range run number prints no report output and issues no task query,
\* whatever the other options; unless --schemas or (version 2) --updateViews
\* is given it ends with exit status 1, its last line the error message, and
\* with one of these options it ends with exit status 0.
C24_BadInputFatalUnlessSchemasOrUpdate ==
    (PastInputTests /\ BadInput) =>
        /\ Range(out) \subseteq NoReportLines
        /\ todo = << >>
        /\ pTasks = << >>
        /\ TaskLevelQueries = {}
        /\ IF args.schemas \/ args.updateViews
           THEN pc = "exit0"
           ELSE /\ pc = "exit1"
                /\ out[Len(out)] = (IF OutsideRange
                                    THEN "ERROR: run number out of range"
                                    ELSE "ERROR: Unrecognized reportType")

\* C24 witness: version 2 has refused an unrecognized report type, the run
\* number in range and --oddball given.
C24_Witness ==
    /\ prog = "wstat2"
    /\ pc = "exit1"
    /\ args.reportType = "bogusReport"
    /\ args.runnum # None
    /\ ~OutsideRange
    /\ args.oddball
    /\ checked
    /\ out[Len(out)] = "ERROR: Unrecognized reportType"

(***************************************************************************)
(* The task listing and the status matrix of a report: claims.             *)
(***************************************************************************)
\* the positions in queries of the queries that load the task rows
TaskRowQueries ==
    {i \in DOMAIN queries :
        queries[i] \in {Select({"task", "try", "status"}), Select({"summary"})}}

\* C29: in the taskSummary report the task rows are loaded once, by the task
\* listing; the status matrix that follows issues no task query and tallies
\* exactly the rows the listing printed, filters and limit included.
\* (Violated by version 2 with --taskLimit: the listing prints the first rows
\* only, the matrix tallies every row loaded.)
C29_MatrixTalliesListedRows ==
    (args # None /\ args.reportType = "taskSummary"
        /\ pc \in {"matrix", "tally", "rendered", "nothing"}) =>
        /\ pTasksFilled
        /\ Cardinality(TaskRowQueries) = 1
        /\ listed # None
        /\ pTasks = listed[1]

(***************************************************************************)
(* The same report twice: claims.                                          *)
(***************************************************************************)
\* the lines printed that are tables or belong to the report: all but the
\* warning of the constructor that it had to create the views
Tabular(lines) == SelectSeq(lines, LAMBDA l : l # "WARNING: views missing")

====
